---- MODULE Spec2Model ----
(***************************************************************************)
(* Model of the investment bot's core: the AI provider router              *)
(* (app/ai_manager.py), the multi-account portfolio aggregators            *)
(* (app/telegram_bot.py, app/health_monitor.py), the tariff manager        *)
(* (app/tariff_manager.py), the trade costing and the /auto_trade command  *)
(* (app/telegram_bot.py) and the providers' sessions (app/ai_openrouter.py,*)
(* app/ai_deepseek.py), the dependency loader and the brokerage client     *)
(* (app/loader.py), the confirmation callbacks (app/telegram_bot.py) and   *)
(* the AutoPortfolioManager (services/ai_strategy/).                       *)
(***************************************************************************)
EXTENDS Integers, Sequences, FiniteSets, TLC

VARIABLES
    providers,      \* AIManager.providers: registered names, in insertion order
    active,         \* AIManager.active_provider
    pc,             \* per request: "idle", "await_active", "await_other", "done"
    kind,           \* per request: "response" (generate_response) or "strategy"
    cur,            \* per request: provider whose call is awaited
    iter,           \* per request: position of the providers.items() iterator
    calls,          \* per request: the provider calls made so far, with their state
    startActive,    \* per request: active_provider when the request started
    alone,          \* per request: no other request ran during this one
    prev,           \* per request: the failover target of the call completed just before
    result,         \* per request: what the call returned
    lastFailover,   \* failover target of the most recently completed request
    started,        \* number of requests started so far
    agg,            \* the portfolio aggregation run (see below)
    tm,             \* the TariffManager and its last call (see below)
    cost,           \* the last costing of a trading action (see below)
    trade,          \* the /auto_trade command in progress (see below)
    mgr,            \* credentials and network sessions of the providers (see below)
    ld,             \* the DependencyLoader, its environment and the last client call
    cb,             \* pending confirmations and the callback handlers in progress
    apm             \* the last call of an AutoPortfolioManager method

aiVars == <<providers, active, pc, kind, cur, iter, calls, startActive, alone,
            prev, result, lastFailover, started>>
\* what the router's methods never touch
aiFrame == <<agg, tm, cost, trade, mgr, ld, cb, apm>>
vars == <<providers, active, pc, kind, cur, iter, calls, startActive, alone,
          prev, result, lastFailover, started, agg, tm, cost, trade, mgr, ld, cb, apm>>

(***************************************************************************)
(* Bounds                                                                  *)
(***************************************************************************)
MaxRequests == 2

Reqs == {"r1", "r2"}

(***************************************************************************)
(* Text: a string is a tuple of characters; a character is a one-letter    *)
(* string, Cyrillic letters and the cross mark are written as tokens.      *)
(***************************************************************************)
UpperChars ==
    <<"A", "B", "C", "D", "E", "F", "G", "H", "I", "J", "K", "L", "M", "N", "O",
      "P", "Q", "R", "S", "T", "U", "V", "W", "X", "Y", "Z",
      "CY_A", "CY_K", "CY_O", "CY_T">>

LowerChars ==
    <<"a", "b", "c", "d", "e", "f", "g", "h", "i", "j", "k", "l", "m", "n", "o",
      "p", "q", "r", "s", "t", "u", "v", "w", "x", "y", "z",
      "cy_a", "cy_k", "cy_o", "cy_t">>

LowerChar(c) ==
    IF \E i \in 1..Len(UpperChars) : UpperChars[i] = c
    THEN LowerChars[CHOOSE i \in 1..Len(UpperChars) : UpperChars[i] = c]
    ELSE c

\* str.lower()
Lower(text) == [i \in 1..Len(text) |-> LowerChar(text[i])]

\* Python's `sub in text`
Contains(sub, text) ==
    \E k \in 0..(Len(text) - Len(sub)) :
        \A i \in 1..Len(sub) : text[k + i] = sub[i]

\* A value a provider can hand back: a string, or something that is no string.
Str(t) == [str |-> TRUE, text |-> t]
NoneValue == [str |-> FALSE, text |-> <<>>]

error_indicators ==
    { <<"cy_n", "cy_e", "cy_d", "cy_o", "cy_s", "cy_t", "cy_u", "cy_p", "cy_e", "cy_n">>,
      <<"cy_o", "cy_sh", "cy_i", "cy_b", "cy_k", "cy_a">>,
      <<"e", "r", "r", "o", "r">>,
      <<"x_mark">>,
      <<"cy_k", "cy_l", "cy_yu", "cy_ch">>,
      <<"cy_s", "cy_r", "cy_e", "cy_d", "cy_s", "cy_t", "cy_v">>,
      <<"cy_l", "cy_i", "cy_m", "cy_i", "cy_t">>,
      <<"i", "n", "v", "a", "l", "i", "d">>,
      <<"a", "u", "t", "h", "e", "n", "t", "i", "c", "a", "t", "i", "o", "n">>,
      <<"s", "s", "l">>,
      <<"c", "e", "r", "t", "i", "f", "i", "c", "a", "t", "e">>,
      <<"cy_t", "cy_a", "cy_j", "cy_m", "cy_a", "cy_u", "cy_t">>,
      <<"t", "i", "m", "e", "o", "u", "t">>,
      <<"c", "o", "n", "n", "e", "c", "t", "i", "o", "n">> }

IsErrorResponseAnyCase(response) ==
    \/ ~response.str
    \/ response.text = <<>>
    \/ \E ind \in error_indicators : Contains(ind, response.text)

\* AIManager._is_error_response
IsErrorResponse(response) ==
    \/ ~response.str
    \/ response.text = <<>>
    \/ \E ind \in error_indicators : Contains(ind, Lower(response.text))

(***************************************************************************)
(* What a provider call can do                                              *)
(***************************************************************************)
\* "(x) Таймаут запроса к AI сервису." : what DeepSeekAI / OpenRouterAI return
\* when the HTTP call times out
TimeoutText ==
    <<"x_mark", " ", "CY_T", "cy_a", "cy_j", "cy_m", "cy_a", "cy_u", "cy_t", " ",
      "cy_z", "cy_a", "cy_p", "cy_r", "cy_o", "cy_s", "cy_a", " ", "cy_k", " ",
      "A", "I", " ", "cy_s", "cy_e", "cy_r", "cy_v", "cy_i", "cy_s", "cy_u", ".">>

\* The texts a backend's answer can carry (choices[0].message.content, stripped)
MessageTexts ==
    { <<"B", "u", "y", " ", "S", "B", "E", "R">>,
      <<"H", "o", "l", "d">>,
      <<"S", "e", "r", "v", "e", "r", " ", "E", "R", "R", "O", "R">>,
      <<"T", "i", "m", "e", "O", "u", "t">>,
      <<>> }

\* DeepSeekAI.generate_response / OpenRouterAI.generate_response, by transport event
ProviderReply(event) ==
    IF event.type = "timeout" THEN Str(TimeoutText) ELSE Str(event.text)

TransportEvents ==
    {[type |-> "timeout", text |-> <<>>]}
        \cup {[type |-> "message", text |-> t] : t \in MessageTexts}

\* A provider seen as a black box by the manager: it raises, or returns a value
ProviderOutcomes ==
    {[exc |-> TRUE, value |-> NoneValue], [exc |-> FALSE, value |-> NoneValue]}
        \cup {[exc |-> FALSE, value |-> ProviderReply(e)] : e \in TransportEvents}

(***************************************************************************)
(* Strategy answers: a text is a tuple of tokens; "{" and "}" delimit the  *)
(* JSON object, a member token stands for one well-formed "key": value     *)
(* pair, anything else between the braces makes json.loads fail.           *)
(* target_return is kept in tenths of a percent.                           *)
(***************************************************************************)
TargetReturnMin == 50
TargetReturnMax == 500
FallbackTargetReturn == 185

MemberTokens ==
    {"m_strategy_name", "m_risk_level", "m_actions_list", "m_actions_text",
     "m_target_30", "m_target_50", "m_target_500", "m_target_510"}

MemberField(tok) ==
    CASE tok = "m_strategy_name" -> "strategy_name"
      [] tok = "m_risk_level" -> "risk_level"
      [] tok \in {"m_actions_list", "m_actions_text"} -> "actions"
      [] OTHER -> "target_return"

MemberTarget(tok) ==
    CASE tok = "m_target_30" -> 30
      [] tok = "m_target_50" -> 50
      [] tok = "m_target_500" -> 500
      [] tok = "m_target_510" -> 510
      [] OTHER -> 0

NoStrategy ==
    [ok |-> FALSE, fields |-> {}, target_return |-> 0, actions_list |-> FALSE,
     fallback_strategy |-> FALSE]

\* json.loads followed by _enhance_strategy_with_portfolio_data
LoadStrategy(body) ==
    LET toks == {body[i] : i \in 1..Len(body)} IN
    IF toks \subseteq MemberTokens
    THEN [ok |-> TRUE,
          fields |-> {MemberField(t) : t \in toks} \cup {"portfolio_context"},
          target_return |->
              IF \E t \in toks : MemberField(t) = "target_return"
              THEN MemberTarget(CHOOSE t \in toks : MemberField(t) = "target_return")
              ELSE 0,
          actions_list |-> "m_actions_list" \in toks,
          fallback_strategy |-> FALSE]
    ELSE NoStrategy

\* AIManager._parse_optimized_strategy_response: re.search(r'\{.*\}', DOTALL) takes
\* the text from the first "{" to the last "}"; without a match the method calls
\* _parse_structured_optimized_response, which does not exist, and the resulting
\* exception is caught: None.
ParseStrategy(response) ==
    IF ~response.str THEN NoStrategy
    ELSE LET t == response.text
             opens == {i \in 1..Len(t) : t[i] = "{"}
             closes == {i \in 1..Len(t) : t[i] = "}"}
         IN IF \E i \in opens : \E j \in closes : i < j
            THEN LET i == CHOOSE x \in opens : \A y \in opens : x <= y
                     j == CHOOSE x \in closes : \A y \in closes : y <= x
                 IN LoadStrategy(SubSeq(t, i + 1, j - 1))
            ELSE NoStrategy

RequiredFields == {"strategy_name", "target_return", "risk_level", "actions"}

ValidateWithoutRange(strategy) ==
    /\ RequiredFields \subseteq strategy.fields
    /\ strategy.actions_list

\* AIManager._validate_strategy_quality
ValidateStrategyQuality(strategy) ==
    /\ RequiredFields \subseteq strategy.fields
    /\ strategy.actions_list
    /\ ~(strategy.target_return < TargetReturnMin \/ strategy.target_return > TargetReturnMax)

StrategyTexts ==
    { <<"H", "o", "l", "d">>,
      <<"{", "H", "o", "l", "d", "}">>,
      <<"{", "m_strategy_name", "m_target_50", "m_risk_level", "m_actions_list", "}">>,
      <<"{", "m_strategy_name", "m_target_510", "m_risk_level", "m_actions_list", "}">>,
      <<"{", "m_strategy_name", "m_target_500", "m_risk_level", "m_actions_text", "}">>,
      <<"O", "K", "{", "m_target_30", "m_risk_level", "m_actions_list", "}", ".">> }

StrategyOutcomes ==
    {[exc |-> TRUE, value |-> NoneValue], [exc |-> FALSE, value |-> NoneValue]}
        \cup {[exc |-> FALSE, value |-> Str(t)] : t \in StrategyTexts}

\* AIManager._generate_optimized_fallback_strategy
FallbackStrategy ==
    [ok |-> TRUE,
     fields |-> RequiredFields \cup {"time_horizon", "max_portfolio_utilization",
                 "portfolio_optimization", "risk_management", "performance_metrics",
                 "portfolio_context"},
     target_return |-> FallbackTargetReturn,
     actions_list |-> TRUE,
     fallback_strategy |-> TRUE]

\* FallbackAI.generate_response: a canned template ("... podklyuchite AI-servis")
FallbackReply ==
    Str(<<"cy_p", "cy_o", "cy_d", "cy_k", "cy_l", "cy_yu", "cy_ch", "cy_i", "cy_t",
          "cy_e", " ", "A", "I">>)

(***************************************************************************)
(* The AI provider router: AIManager                                       *)
(***************************************************************************)
ProviderOrder == <<"openrouter", "deepseek">>

Registered == {providers[i] : i \in 1..Len(providers)}

NoResult == [from |-> "none", value |-> NoneValue, strategy |-> NoStrategy]

OutcomesOf(k) == IF k = "response" THEN ProviderOutcomes ELSE StrategyOutcomes

\* The test after the await: no exception, and `not self._is_error_response(response)`
\* (generate_response) or `strategy and self._validate_strategy_quality(strategy)`
\* (generate_portfolio_strategy)
Accepts(k, o) ==
    /\ ~o.exc
    /\ IF k = "response"
       THEN ~IsErrorResponse(o.value)
       ELSE ParseStrategy(o.value).ok /\ ValidateStrategyQuality(ParseStrategy(o.value))

SuccessResult(k, name, o) ==
    IF k = "response"
    THEN [from |-> name, value |-> o.value, strategy |-> NoStrategy]
    ELSE [from |-> name, value |-> NoneValue, strategy |-> ParseStrategy(o.value)]

\* What is returned once every named provider has failed
FallbackResult(k) ==
    IF k = "response"
    THEN [from |-> "fallback", value |-> FallbackReply, strategy |-> NoStrategy]
    ELSE [from |-> "fallback", value |-> NoneValue, strategy |-> FallbackStrategy]

NextOtherIgnoringActive(from, act) ==
    IF from <= Len(providers) THEN from ELSE 0

\* `for provider_name, provider in self.providers.items():
\*      if provider_name != self.active_provider:`  resumed at position `from`;
\* 0 when the loop is exhausted
NextOther(from, act) ==
    LET S == {j \in from..Len(providers) : providers[j] # act} IN
    IF S = {} THEN 0 ELSE CHOOSE j \in S : \A x \in S : j <= x

ActiveUnchanged(r) == active

ActiveReset(r) == "fallback"

\* `self.active_provider = provider_name`, in the loop over the other providers only
ActiveAfterSuccess(r) == IF pc[r] = "await_other" THEN cur[r] ELSE active

\* active_provider after the fallback has answered: untouched
ActiveAfterFallback(r) == active

NoOutcome == [exc |-> FALSE, value |-> NoneValue]

Call(name) == [p |-> name, st |-> "inflight", out |-> NoOutcome]

MarkLast(cs, st, o) == [cs EXCEPT ![Len(cs)] = [p |-> cs[Len(cs)].p, st |-> st, out |-> o]]

Running(q) == pc[q] \in {"await_active", "await_other"}

CaughtActiveOnly(site) == site = "await_active"

\* `except Exception as e: logger.error(...)` around each provider call: the call
\* awaited as the active provider (site "await_active") and the calls of the loop
\* (site "await_other")
Caught(site) == site \in {"await_active", "await_other"}

\* The fallback's answer is returned
ReturnFallback(r, k, cs) ==
    /\ pc' = [pc EXCEPT ![r] = "done"]
    /\ cur' = [cur EXCEPT ![r] = "none"]
    /\ iter' = [iter EXCEPT ![r] = 0]
    /\ calls' = [calls EXCEPT ![r] =
           IF k = "response"
           THEN Append(cs, [p |-> "fallback", st |-> "ok",
                            out |-> [exc |-> FALSE, value |-> FallbackReply]])
           ELSE cs]
    /\ result' = [result EXCEPT ![r] = FallbackResult(k)]
    /\ lastFailover' = "none"
    /\ active' = ActiveAfterFallback(r)

\* The loop over the other providers from position `from`, up to the next await
\* or to the return of the fallback's answer. No await point lies between the end
\* of the loop and the fallback's return: FallbackAI never suspends.
Proceed(r, k, from, cs) ==
    LET j == NextOther(from, active) IN
    IF j # 0
    THEN /\ pc' = [pc EXCEPT ![r] = "await_other"]
         /\ cur' = [cur EXCEPT ![r] = providers[j]]
         /\ iter' = [iter EXCEPT ![r] = j]
         /\ calls' = [calls EXCEPT ![r] = Append(cs, Call(providers[j]))]
         /\ UNCHANGED <<result, lastFailover, active>>
    ELSE ReturnFallback(r, k, cs)

\* AIManager.generate_response / generate_portfolio_strategy, from the call to the
\* first await
StartRequest(r, k) ==
    /\ pc[r] = "idle"
    /\ started < MaxRequests
    /\ started' = started + 1
    /\ kind' = [kind EXCEPT ![r] = k]
    /\ startActive' = [startActive EXCEPT ![r] = active]
    /\ prev' = [prev EXCEPT ![r] = lastFailover]
    /\ alone' = [q \in Reqs |->
            IF q = r THEN \A x \in Reqs \ {r} : ~Running(x)
            ELSE IF Running(q) THEN FALSE ELSE alone[q]]
    /\ IF active \in Registered /\ active # "fallback"
       THEN /\ pc' = [pc EXCEPT ![r] = "await_active"]
            /\ cur' = [cur EXCEPT ![r] = active]
            /\ calls' = [calls EXCEPT ![r] = <<Call(active)>>]
            /\ UNCHANGED <<iter, result, lastFailover, active>>
       ELSE Proceed(r, k, 1, <<>>)
    /\ UNCHANGED <<providers, aiFrame>>

\* A provider's answer arrives: the code after the await, up to the next await or
\* to the return
ProviderReturns(r, o) ==
    /\ Running(r)
    /\ o \in OutcomesOf(kind[r])
    /\ IF Accepts(kind[r], o)
       THEN /\ active' = ActiveAfterSuccess(r)
            /\ result' = [result EXCEPT ![r] = SuccessResult(kind[r], cur[r], o)]
            /\ calls' = [calls EXCEPT ![r] = MarkLast(calls[r], "ok", o)]
            /\ pc' = [pc EXCEPT ![r] = "done"]
            /\ cur' = [cur EXCEPT ![r] = "none"]
            /\ iter' = [iter EXCEPT ![r] = 0]
            /\ lastFailover' =
                  IF /\ alone[r]
                     /\ pc[r] = "await_other"
                     /\ Len(calls[r]) = 2
                     /\ calls[r][1].p = startActive[r]
                  THEN cur[r] ELSE "none"
       ELSE IF o.exc /\ ~Caught(pc[r])
       THEN IF kind[r] = "response"
            THEN \* the exception leaves generate_response
                 /\ pc' = [pc EXCEPT ![r] = "raised"]
                 /\ calls' = [calls EXCEPT ![r] = MarkLast(calls[r], "failed", o)]
                 /\ cur' = [cur EXCEPT ![r] = "none"]
                 /\ iter' = [iter EXCEPT ![r] = 0]
                 /\ lastFailover' = "none"
                 /\ UNCHANGED <<result, active>>
            ELSE \* the outer `except Exception` of generate_portfolio_strategy
                 ReturnFallback(r, kind[r], MarkLast(calls[r], "failed", o))
       ELSE Proceed(r, kind[r], IF pc[r] = "await_active" THEN 1 ELSE iter[r] + 1,
                    MarkLast(calls[r], "failed", o))
    /\ UNCHANGED <<providers, kind, startActive, prev, alone, started, aiFrame>>

\* The caller takes the returned value
Consume(r) ==
    /\ pc[r] \in {"done", "raised"}
    /\ pc' = [pc EXCEPT ![r] = "idle"]
    /\ calls' = [calls EXCEPT ![r] = <<>>]
    /\ result' = [result EXCEPT ![r] = NoResult]
    /\ kind' = [kind EXCEPT ![r] = "response"]
    /\ startActive' = [startActive EXCEPT ![r] = "none"]
    /\ prev' = [prev EXCEPT ![r] = "none"]
    /\ alone' = [alone EXCEPT ![r] = TRUE]
    /\ UNCHANGED <<providers, active, cur, iter, lastFailover, started, aiFrame>>

\* AIManager.__init__ and _init_providers, by which credentials have the expected
\* shape
InitProviders(keyOk) ==
    /\ providers = SelectSeq(ProviderOrder, LAMBDA n : n \in keyOk)
    /\ active = IF "openrouter" \in keyOk THEN "openrouter"
                ELSE IF "deepseek" \in keyOk THEN "deepseek" ELSE "fallback"

AIInit ==
    /\ \E keyOk \in SUBSET {"openrouter", "deepseek"} : InitProviders(keyOk)
    /\ pc = [r \in Reqs |-> "idle"]
    /\ kind = [r \in Reqs |-> "response"]
    /\ cur = [r \in Reqs |-> "none"]
    /\ iter = [r \in Reqs |-> 0]
    /\ calls = [r \in Reqs |-> <<>>]
    /\ startActive = [r \in Reqs |-> "none"]
    /\ alone = [r \in Reqs |-> TRUE]
    /\ prev = [r \in Reqs |-> "none"]
    /\ result = [r \in Reqs |-> NoResult]
    /\ lastFailover = "none"
    /\ started = 0

AINext ==
    \/ \E r \in Reqs : \E k \in {"response", "strategy"} : StartRequest(r, k)
    \/ \E r \in Reqs : \E o \in ProviderOutcomes \cup StrategyOutcomes : ProviderReturns(r, o)
    \/ \E r \in Reqs : Consume(r)

(***************************************************************************)
(* The portfolio aggregators: InvestmentTelegramBot._get_all_accounts_-    *)
(* portfolio_data ("bot") and HealthMonitor._check_extended_portfolio_-    *)
(* data_all_accounts ("monitor")                                           *)
(***************************************************************************)
MaxAccounts == 2
MaxPositions == 2
NanoPerUnit == 1000000000

Quantities == {0, 100}
Prices == {[units |-> 300, nano |-> 0]}
AverageCosts == {[units |-> 250, nano |-> 0]}

RawPositions ==
    [quantity : Quantities, current_price : Prices, average_position_price : AverageCosts]

SeqsUpTo(S, n) == UNION {[1..k -> S] : k \in 0..n}

\* The money lists of a positions response
MoneyLists ==
    { <<>>,
      <<[currency |-> "rub", units |-> 10000, nano |-> 0]>>,
      <<[currency |-> "rub", units |-> 5000, nano |-> 0]>>,
      <<[currency |-> "usd", units |-> 70, nano |-> 0],
        [currency |-> "rub", units |-> 5000, nano |-> 0]>> }

\* What the brokerage returns for one account: get_portfolio raises, returns
\* nothing or returns positions; get_positions raises or returns the money list
RawAccounts ==
    {[portfolio |-> f, positions_fetch |-> "ok", positions |-> <<>>, money |-> <<>>] :
        f \in {"raise", "none"}}
    \cup {[portfolio |-> "ok", positions_fetch |-> "raise", positions |-> <<>>, money |-> <<>>]}
    \cup [portfolio : {"ok"}, positions_fetch : {"ok"},
          positions : SeqsUpTo(RawPositions, MaxPositions), money : MoneyLists]

\* units + nano / 1e9
MoneyValue(m) == m.units + m.nano \div NanoPerUnit

RECURSIVE SumOf(_, _)
SumOf(seq, field) ==
    IF seq = <<>> THEN 0 ELSE seq[1][field] + SumOf(Tail(seq), field)

\* One entry of positions_list / account_positions_details
PositionEntry(p) ==
    [quantity |-> p.quantity,
     value |-> p.quantity * MoneyValue(p.current_price),
     invested_value |-> p.quantity * MoneyValue(p.average_position_price)]

\* `for money in positions.money: if money.currency == 'rub': ...`
RubCash(money) ==
    SumOf([i \in 1..Len(money) |->
             [amount |-> IF money[i].currency = "rub" THEN MoneyValue(money[i]) ELSE 0]],
          "amount")

NoAccountData ==
    [ok |-> FALSE, total_value |-> 0, total_invested |-> 0, available_cash |-> 0,
     positions |-> <<>>, positions_count |-> 0]

\* telegram_bot.py, the loop over portfolio.positions: every position is entered
BotPositions(ps) == [i \in 1..Len(ps) |-> PositionEntry(ps[i])]

\* telegram_bot.py: total_value += position_value, over the positions only
BotTotalValue(raw) == SumOf(BotPositions(raw.positions), "value")

\* telegram_bot.py: `if not portfolio: return None` and the method's
\* `except Exception: return None`; "skip" stands for the None the caller skips
BotFetchOutcome(raw) ==
    IF raw.portfolio = "ok" /\ raw.positions_fetch = "ok" THEN "ok" ELSE "skip"

\* InvestmentTelegramBot._get_account_portfolio_data
BotAccountData(raw) ==
    IF BotFetchOutcome(raw) # "ok"
    THEN NoAccountData
    ELSE [ok |-> TRUE,
          total_value |-> BotTotalValue(raw),
          total_invested |-> SumOf(BotPositions(raw.positions), "invested_value"),
          available_cash |-> RubCash(raw.money),
          positions |-> BotPositions(raw.positions),
          positions_count |-> Len(BotPositions(raw.positions))]

\* health_monitor.py, the loop over portfolio.positions: `if quantity <= 0: continue`
MonitorPositions(ps) ==
    LET kept == SelectSeq(ps, LAMBDA p : ~(p.quantity <= 0)) IN
    [i \in 1..Len(kept) |-> PositionEntry(kept[i])]

\* HealthMonitor._check_extended_portfolio_data_all_accounts, one account of the
\* loop (no exception raised): the entry of accounts_info. The monitor keeps no
\* invested amount.
MonitorAccountData(raw) ==
    LET ps == IF raw.portfolio = "ok" THEN MonitorPositions(raw.positions) ELSE <<>> IN
    [ok |-> TRUE,
     total_value |-> SumOf(ps, "value") + RubCash(raw.money),
     total_invested |-> 0,
     available_cash |-> RubCash(raw.money),
     positions |-> ps,
     positions_count |-> Len(ps)]

AccumulateCashTwice(a, d) ==
    [a EXCEPT !.total_portfolio_value = @ + d.total_value + d.available_cash,
              !.total_invested = @ + d.total_invested,
              !.total_cash = @ + d.available_cash,
              !.accounts = Append(@, d)]

\* all_accounts_data.append(account_data); total_portfolio_value += ...;
\* total_invested += ...; total_cash += ...   (likewise accounts_info.append,
\* total_balance_all_accounts += ..., total_cash_all_accounts += ...)
Accumulate(a, d) ==
    [a EXCEPT !.total_portfolio_value = @ + d.total_value,
              !.total_invested = @ + d.total_invested,
              !.total_cash = @ + d.available_cash,
              !.accounts = Append(@, d)]

AggIdle ==
    [impl |-> "none", phase |-> "idle", status |-> "none", n |-> 0, idx |-> 0,
     accounts |-> <<>>, raws |-> <<>>, ids |-> <<>>, failed |-> {},
     total_portfolio_value |-> 0, total_invested |-> 0, total_cash |-> 0]

\* The start of either aggregator: get_accounts. `listing` is "raise" or the
\* number of accounts returned.
AggStart(impl, listing) ==
    /\ agg.phase = "idle"
    /\ agg' = IF listing = "raise" \/ listing = "0"
              THEN [AggIdle EXCEPT !.impl = impl, !.phase = "done",
                       !.status = IF impl = "bot" THEN "none"
                                  ELSE IF listing = "raise" THEN "error" ELSE "no_accounts"]
              ELSE [AggIdle EXCEPT !.impl = impl, !.phase = "accounts", !.idx = 1,
                       !.n = IF listing = "1" THEN 1 ELSE MaxAccounts]
    /\ UNCHANGED <<aiVars, tm, cost, trade, mgr, ld, cb, apm>>

\* One round of the loop over the accounts: the two fetches and the processing
\* of what they returned; after the last account, the totals are returned (bot)
\* or reported (monitor).
AggAccount(raw) ==
    /\ agg.phase = "accounts"
    /\ raw \in RawAccounts
    /\ LET i == agg.idx
           seen == [agg EXCEPT !.raws = Append(@, raw), !.idx = i + 1,
                               !.phase = IF i = agg.n THEN "done" ELSE "accounts",
                               !.status = IF i = agg.n THEN "ok" ELSE "none"]
           fetchFailed == raw.portfolio = "raise" \/ raw.positions_fetch = "raise"
       IN IF agg.impl = "bot"
          THEN LET d == BotAccountData(raw) IN
               IF d.ok
               THEN agg' = [Accumulate(seen, d) EXCEPT !.ids = Append(@, i)]
               ELSE agg' = [seen EXCEPT !.failed = IF fetchFailed THEN @ \cup {i} ELSE @]
          ELSE IF fetchFailed
               THEN \* the exception reaches the method's `except Exception`
                    agg' = [agg EXCEPT !.raws = Append(@, raw), !.phase = "done",
                              !.status = "error", !.failed = @ \cup {i}]
               ELSE agg' = [Accumulate(seen, MonitorAccountData(raw)) EXCEPT
                              !.ids = Append(@, i)]
    /\ UNCHANGED <<aiVars, tm, cost, trade, mgr, ld, cb, apm>>

\* The caller has used the result; the next request rebuilds it from scratch
AggReset ==
    /\ agg.phase = "done"
    /\ agg' = AggIdle
    /\ UNCHANGED <<aiVars, tm, cost, trade, mgr, ld, cb, apm>>

AggNext ==
    \/ \E impl \in {"bot", "monitor"} : \E listing \in {"raise", "0", "1", "many"} :
          AggStart(impl, listing)
    \/ \E raw \in RawAccounts : AggAccount(raw)
    \/ AggReset

(***************************************************************************)
(* The tariff manager: TariffManager                                       *)
(* Rates are kept in thousandths of a percent (0.05 % is 50), the minimum  *)
(* commission and the monthly fee in whole roubles. The `features` texts   *)
(* of a tariff follow its type like the rates do and are left out.         *)
(***************************************************************************)
MaxTariffAccounts == 3

Upper(text) ==
    [i \in 1..Len(text) |->
        IF \E j \in 1..Len(LowerChars) : LowerChars[j] = text[i]
        THEN UpperChars[CHOOSE j \in 1..Len(LowerChars) : LowerChars[j] = text[i]]
        ELSE text[i]]

\* str(acc.type) of an account; an account may lack the attribute
AccountTypeTexts ==
    { <<"T", "i", "n", "k", "o", "f", "f">>,
      <<"I", "I", "I", "S">>,
      <<"B", "r", "o", "k", "e", "r", "a", "g", "e">> }

TariffAccounts ==
    {[has_type |-> TRUE, type |-> t] : t \in AccountTypeTexts}

\* what client.users.get_accounts() hands back
AccountsResponses ==
    {[present |-> FALSE, accounts |-> <<>>]}
        \cup {[present |-> TRUE, accounts |-> a] :
                 a \in SeqsUpTo(TariffAccounts, MaxTariffAccounts)}

\* the `tariff` attribute of the user info: missing, without name and type, or
\* naming a tariff
TariffFields ==
    { [has |-> FALSE, attrs |-> FALSE, name |-> "", type |-> ""],
      [has |-> TRUE, attrs |-> FALSE, name |-> "", type |-> ""],
      [has |-> TRUE, attrs |-> TRUE, name |-> "Trejder", type |-> "trader"],
      [has |-> TRUE, attrs |-> TRUE, name |-> "VIP", type |-> "vip"] }

\* what client.users.get_info() hands back
UserInfos ==
    {[present |-> FALSE, premium_status |-> "absent", tariff |-> f] :
         f \in {x \in TariffFields : ~x.has}}
        \cup {[present |-> TRUE, premium_status |-> p, tariff |-> f] :
                 p \in {"absent", "false", "true"}, f \in TariffFields}

\* one run of the two brokerage calls of get_tariff_info: which of them throws,
\* and what they return otherwise
NoUserInfo ==
    [present |-> FALSE, premium_status |-> "absent",
     tariff |-> [has |-> FALSE, attrs |-> FALSE, name |-> "", type |-> ""]]

FailureEvent(site) ==
    [fail |-> site, user_info |-> NoUserInfo,
     accounts_response |-> [present |-> FALSE, accounts |-> <<>>]]

BrokerEvents ==
    {FailureEvent(f) : f \in {"get_info", "get_accounts"}}
        \cup {[fail |-> "none", user_info |-> u, accounts_response |-> a] :
                 u \in UserInfos, a \in AccountsResponses}

StandardRates == [buy |-> 50, sell |-> 50, min_commission |-> 1]

\* TariffManager._get_commission_rates: `rates.get(tariff_type, rates['standard'])`
GetCommissionRates(tariff_type) ==
    CASE tariff_type = "investor" -> [buy |-> 300, sell |-> 300, min_commission |-> 0]
      [] tariff_type = "trader" -> [buy |-> 40, sell |-> 40, min_commission |-> 0]
      [] tariff_type = "premium" -> [buy |-> 25, sell |-> 25, min_commission |-> 0]
      [] tariff_type = "standard" -> StandardRates
      [] OTHER -> StandardRates

\* TariffManager._get_monthly_fee: `monthly_fees.get(tariff_type, 0.0)`
GetMonthlyFee(tariff_type) ==
    CASE tariff_type = "investor" -> 0
      [] tariff_type = "trader" -> 390
      [] tariff_type = "premium" -> 0
      [] tariff_type = "standard" -> 0
      [] OTHER -> 0

HasAccountOf(marker, accounts) ==
    \E i \in 1..Len(accounts) :
        accounts[i].has_type /\ Contains(marker, Lower(accounts[i].type))

DetectTraderFirst(accounts_response) ==
    IF ~accounts_response.present
    THEN [name |-> "Standartnyj", type |-> "standard"]
    ELSE IF Len(accounts_response.accounts) > 2
    THEN [name |-> "Trejder", type |-> "trader"]
    ELSE IF /\ HasAccountOf(<<"i", "i", "i", "s">>, accounts_response.accounts)
            /\ HasAccountOf(<<"b", "r", "o", "k", "e", "r", "a", "g", "e">>,
                            accounts_response.accounts)
    THEN [name |-> "Investor", type |-> "investor"]
    ELSE [name |-> "Standartnyj", type |-> "standard"]

\* TariffManager._detect_tariff_by_accounts
DetectTariffByAccounts(accounts_response) ==
    IF ~accounts_response.present
    THEN [name |-> "Standartnyj", type |-> "standard"]
    ELSE IF /\ HasAccountOf(<<"i", "i", "i", "s">>, accounts_response.accounts)
            /\ HasAccountOf(<<"b", "r", "o", "k", "e", "r", "a", "g", "e">>,
                            accounts_response.accounts)
    THEN [name |-> "Investor", type |-> "investor"]
    ELSE IF Len(accounts_response.accounts) > 2
    THEN [name |-> "Trejder", type |-> "trader"]
    ELSE [name |-> "Standartnyj", type |-> "standard"]

\* the tariff_name, tariff_type pair chosen by _analyze_tariff
TariffNameAndType(user_info, accounts_response) ==
    IF user_info.present /\ user_info.premium_status = "true"
    THEN [name |-> "Premium", type |-> "premium"]
    ELSE IF user_info.present /\ user_info.tariff.has
    THEN IF user_info.tariff.attrs
         THEN [name |-> user_info.tariff.name, type |-> user_info.tariff.type]
         ELSE [name |-> "Standartnyj", type |-> "standard"]
    ELSE DetectTariffByAccounts(accounts_response)

NoTariff ==
    [set |-> FALSE, name |-> "", type |-> "",
     commission_rates |-> [buy |-> 0, sell |-> 0, min_commission |-> 0],
     monthly_fee |-> 0]

TariffOf(nt) ==
    [set |-> TRUE, name |-> nt.name, type |-> nt.type,
     commission_rates |-> GetCommissionRates(nt.type),
     monthly_fee |-> GetMonthlyFee(nt.type)]

\* TariffManager._analyze_tariff
AnalyzeTariff(user_info, accounts_response) ==
    TariffOf(TariffNameAndType(user_info, accounts_response))

\* TariffManager._get_default_tariff
GetDefaultTariff ==
    [set |-> TRUE, name |-> "Standartnyj", type |-> "standard",
     commission_rates |-> GetCommissionRates("standard"), monthly_fee |-> 0]

DetectionCaughtInfoOnly(site) == site = "get_info"

\* the `try: ... except Exception as e:` of get_tariff_info encloses both
\* brokerage calls
DetectionCaught(site) == site \in {"get_info", "get_accounts"}

\* TariffManager.get_tariff_info on a manager whose tariff_info is `cache`, the
\* brokerage behaving as `ev`: the value returned, the new tariff_info, the number
\* of brokerage calls made, whether one of them threw and whether the exception
\* left the method
Memoized(tariff) ==
    [ret |-> tariff, tariff_info |-> tariff, api_calls |-> 2, threw |-> FALSE,
     raised |-> FALSE]

GetTariffInfo(cache, ev) ==
    IF cache.set
    THEN [ret |-> cache, tariff_info |-> cache, api_calls |-> 0, threw |-> FALSE,
          raised |-> FALSE]
    ELSE IF ev.fail # "none"
    THEN [ret |-> IF DetectionCaught(ev.fail) THEN GetDefaultTariff ELSE NoTariff,
          tariff_info |-> cache,
          api_calls |-> IF ev.fail = "get_info" THEN 1 ELSE 2,
          threw |-> TRUE,
          raised |-> ~DetectionCaught(ev.fail)]
    ELSE Memoized(AnalyzeTariff(ev.user_info, ev.accounts_response))

\* operation names handed to get_commission_rate
OperationTexts == {<<"b", "u", "y">>, <<"s", "e", "l", "l">>, <<"B", "U", "Y">>}

\* `tariff_info['commission_rates'].get(operation_type.lower(), 0.05)`
RateOf(tariff, operation_type) ==
    LET key == Lower(operation_type) IN
    CASE key = <<"b", "u", "y">> -> tariff.commission_rates.buy
      [] key = <<"s", "e", "l", "l">> -> tariff.commission_rates.sell
      [] key = <<"m", "i", "n", "_", "c", "o", "m", "m", "i", "s", "s", "i", "o", "n">> ->
             tariff.commission_rates.min_commission
      [] OTHER -> 50

\* `tariff_info['commission_rates'].get('min_commission', 1.0)`
MinOf(tariff) == tariff.commission_rates.min_commission

\* no brokerage call was made
NoEvent ==
    FailureEvent("no_call")

\* The manager after one of its three public methods has run: `op` names the
\* method, `ret` is the tariff it worked with, `value` the number it returned
\* (0 for get_tariff_info), `ev` what the brokerage did if it was called;
\* `resolved` and `first` remember the first call, `later` marks a call made
\* after it.
TmWith(t, op, operation_type, ev, g) ==
    [tariff_info |-> g.tariff_info,
     resolved |-> TRUE,
     first |-> IF t.resolved THEN t.first ELSE g.ret,
     later |-> t.resolved,
     op |-> op,
     ret |-> g.ret,
     value |-> CASE g.raised -> 0
                 [] op = "get_commission_rate" -> RateOf(g.ret, operation_type)
                 [] op = "get_min_commission" -> MinOf(g.ret)
                 [] OTHER -> 0,
     api_calls |-> g.api_calls,
     ev |-> IF g.api_calls > 0 THEN ev ELSE NoEvent,
     threw |-> g.threw,
     raised |-> g.raised]

TmAfter(t, op, operation_type, ev) ==
    TmWith(t, op, operation_type, ev, GetTariffInfo(t.tariff_info, ev))

TmNew ==
    [tariff_info |-> NoTariff, resolved |-> FALSE, first |-> NoTariff,
     later |-> FALSE, op |-> "none", ret |-> NoTariff, value |-> 0,
     api_calls |-> 0, ev |-> NoEvent, threw |-> FALSE, raised |-> FALSE]

\* TariffManager.get_tariff_info
TariffInfoCall(ev) ==
    /\ tm' = TmAfter(tm, "get_tariff_info", <<>>, ev)
    /\ UNCHANGED <<aiVars, agg, cost, trade, mgr, ld, cb, apm>>

\* TariffManager.get_commission_rate
CommissionRateCall(operation_type, ev) ==
    /\ tm' = TmAfter(tm, "get_commission_rate", operation_type, ev)
    /\ UNCHANGED <<aiVars, agg, cost, trade, mgr, ld, cb, apm>>

\* TariffManager.get_min_commission
MinCommissionCall(ev) ==
    /\ tm' = TmAfter(tm, "get_min_commission", <<>>, ev)
    /\ UNCHANGED <<aiVars, agg, cost, trade, mgr, ld, cb, apm>>

(***************************************************************************)
(* Trade costing: InvestmentTelegramBot._calculate_commission and          *)
(* _calculate_total_cost. Quantities and prices are whole numbers; amounts *)
(* of the breakdown are kept in 1/100000 of a rouble, so that a rate in    *)
(* thousandths of a percent applies without rounding; commission_percent   *)
(* is kept as the fraction num/den. The arithmetic is exact where the code *)
(* uses floats. Amounts stay below 21000 roubles.                          *)
(***************************************************************************)
Roubles(n) == n * 100000

Max(a, b) == IF a >= b THEN a ELSE b

ActionTexts == {<<"B", "U", "Y">>, <<"S", "E", "L", "L">>, <<"b", "u", "y">>}
CostQuantities == {0 - 5, 0, 1, 3}
CostPrices == {0, 160, 3500}

\* `trade_amount = quantity * price; commission = trade_amount *
\* (commission_rate / 100); return max(commission, min_commission)`
CalculateCommission(rate, min_commission, quantity, price) ==
    Max(quantity * price * rate, Roubles(min_commission))

TotalCostAlwaysAdds(action_type, base_cost, commission) == base_cost + commission

\* `if action_type.upper() == 'BUY': total_cost = base_cost + commission
\*  else: total_cost = base_cost - commission`
TotalCost(action_type, base_cost, commission) ==
    IF Upper(action_type) = <<"B", "U", "Y">>
    THEN base_cost + commission
    ELSE base_cost - commission

NoBreakdown ==
    [made |-> FALSE, base_cost |-> 0, commission |-> 0, total_cost |-> 0,
     net_cost |-> 0, commission_percent |-> [num |-> 0, den |-> 1]]

\* InvestmentTelegramBot._calculate_total_cost, given the rate and the minimum
\* commission that the two look-ups of _calculate_commission returned
BreakdownOf(action_type, base_cost, commission) ==
    [made |-> TRUE,
     base_cost |-> Roubles(base_cost),
     commission |-> commission,
     total_cost |-> TotalCost(action_type, Roubles(base_cost), commission),
     net_cost |-> Roubles(base_cost),
     commission_percent |->
         IF base_cost > 0
         THEN [num |-> commission, den |-> base_cost * 1000]
         ELSE [num |-> 0, den |-> 1]]

CalculateTotalCost(action_type, quantity, current_price, rate, min_commission) ==
    BreakdownOf(action_type, quantity * current_price,
                CalculateCommission(rate, min_commission, quantity, current_price))

\* The costing of one action by a bot whose tariff manager is `t`: the two
\* look-ups of _calculate_commission, get_commission_rate(action_type.lower())
\* under brokerage behaviour ev1 and get_min_commission() under ev2, and the
\* breakdown made from them
CostingOf(t1, t2, action_type, quantity, current_price) ==
    [tm |-> t2,
     rate_tariff |-> t1.ret,
     min_tariff |-> t2.ret,
     breakdown |-> CalculateTotalCost(action_type, quantity, current_price,
                                      t1.value, t2.value)]

CostingAfterRate(t1, action_type, quantity, current_price, ev2) ==
    CostingOf(t1, TmAfter(t1, "get_min_commission", <<>>, ev2),
              action_type, quantity, current_price)

Costing(t, action_type, quantity, current_price, ev1, ev2) ==
    CostingAfterRate(TmAfter(t, "get_commission_rate", Lower(action_type), ev1),
                     action_type, quantity, current_price, ev2)

NoCost ==
    [status |-> "none", action |-> <<>>, quantity |-> 0, current_price |-> 0,
     rate_tariff |-> NoTariff, min_tariff |-> NoTariff, breakdown |-> NoBreakdown]

\* InvestmentTelegramBot._calculate_total_cost(action, current_price)
CostAction(action_type, quantity, current_price, ev1, ev2) ==
    LET c == Costing(tm, action_type, quantity, current_price, ev1, ev2) IN
    /\ tm' = c.tm
    /\ cost' = [status |-> "ok", action |-> action_type, quantity |-> quantity,
                current_price |-> current_price, rate_tariff |-> c.rate_tariff,
                min_tariff |-> c.min_tariff, breakdown |-> c.breakdown]
    /\ UNCHANGED <<aiVars, agg, trade, mgr, ld, cb, apm>>

PlainUserInfo ==
    [present |-> TRUE, premium_status |-> "false",
     tariff |-> [has |-> FALSE, attrs |-> FALSE, name |-> "", type |-> ""]]

AccountsOf(types) ==
    [present |-> TRUE,
     accounts |-> [i \in 1..Len(types) |-> [has_type |-> TRUE, type |-> types[i]]]]

\* brokerage behaviours, one for each way a call can end: the two failures, and
\* an answer leading to each tariff
TariffEvents ==
    {FailureEvent(f) : f \in {"get_info", "get_accounts"}}
        \cup {[fail |-> "none",
               user_info |-> [present |-> TRUE, premium_status |-> "absent", tariff |-> f],
               accounts_response |-> [present |-> FALSE, accounts |-> <<>>]] :
                 f \in {x \in TariffFields : x.has}}
        \cup {[fail |-> "none",
               user_info |-> [PlainUserInfo EXCEPT !.premium_status = "true"],
               accounts_response |-> AccountsOf(<<<<"T", "i", "n", "k", "o", "f", "f">>>>)]}
        \cup {[fail |-> "none", user_info |-> PlainUserInfo,
               accounts_response |-> AccountsOf(t)] :
                 t \in { << <<"I", "I", "I", "S">>,
                            <<"B", "r", "o", "k", "e", "r", "a", "g", "e">> >>,
                         [i \in 1..MaxTariffAccounts |-> <<"T", "i", "n", "k", "o", "f", "f">>] }}

\* the behaviours met while costing: a failure, and an answer leading to the
\* investor tariff
CostEvents ==
    { FailureEvent("get_info"),
      [fail |-> "none", user_info |-> PlainUserInfo,
       accounts_response |->
           AccountsOf(<< <<"I", "I", "I", "S">>,
                         <<"B", "r", "o", "k", "e", "r", "a", "g", "e">> >>)] }

TariffNext ==
    \/ \E ev \in TariffEvents : TariffInfoCall(ev)
    \/ \E op \in OperationTexts : \E ev \in TariffEvents : CommissionRateCall(op, ev)
    \/ \E ev \in TariffEvents : MinCommissionCall(ev)
    \/ \E a \in ActionTexts : \E q \in CostQuantities : \E p \in CostPrices :
           \E ev1, ev2 \in CostEvents : CostAction(a, q, p, ev1, ev2)

\* get_tariff_info over everything the brokerage can answer
DetectNext == \E ev \in BrokerEvents : TariffInfoCall(ev)

(***************************************************************************)
(* The /auto_trade command: InvestmentTelegramBot.auto_trade_command, from *)
(* the portfolio to the strategy of AIManager.generate_portfolio_strategy, *)
(* its display, and the confirmation request or the automatic execution.   *)
(* Request slot r1 of the router carries the command's call.               *)
(***************************************************************************)
BuyText == <<"B", "U", "Y">>
SellText == <<"S", "E", "L", "L">>

\* portfolio_data of _get_all_accounts_portfolio_data, by its total value
PortfolioTotals == {0, 200000}
Portfolio(total) ==
    [total_portfolio_value |-> total, total_cash |-> 10000, account_count |-> 1]

\* values of datetime.now()
Times == {1, 2}

NoCalculation == [made |-> FALSE, breakdown |-> NoBreakdown,
                  rate_tariff |-> NoTariff, min_tariff |-> NoTariff]

\* one element of strategy['actions']; has_price tells whether it has the key
\* 'current_price'; cost_calculation is the key added by the confirmation request
TradeAction(action, ticker, quantity, has_price, current_price, urgency) ==
    [action |-> action, ticker |-> ticker, quantity |-> quantity,
     has_price |-> has_price, current_price |-> current_price,
     urgency |-> urgency, cost_calculation |-> NoCalculation]

\* the actions list written in a provider's answer
AIActions ==
    << TradeAction(BuyText, "SBER", 50, TRUE, 300, "high"),
       TradeAction(SellText, "GAZP", 0, FALSE, 0, "medium") >>

AnswerActions(value) ==
    IF value.str /\ "m_actions_list" \in {value.text[i] : i \in 1..Len(value.text)}
    THEN AIActions ELSE <<>>

\* the loop of AIManager._enhance_strategy_with_portfolio_data: a position worth
\* more than 15 % of the portfolio is cut to int(max_position_value / price), at
\* least 1
EnhanceAction(a, total) ==
    IF a.has_price /\ a.quantity * a.current_price * 100 > total * 15
    THEN [a EXCEPT !.quantity = Max((total * 15) \div (100 * a.current_price), 1)]
    ELSE a

\* the actions of AIManager._generate_optimized_fallback_strategy:
\* base_position_size = total_value * 0.08, 60 % and 40 % of it at 3500
FallbackActions(total) ==
    << TradeAction(BuyText, "YNDX", Max(1, (total * 48) \div 3500000), TRUE, 3500, "high"),
       TradeAction(BuyText, "TCSG", Max(1, (total * 32) \div 3500000), TRUE, 3500, "high"),
       TradeAction(SellText, "GAZP", 50, TRUE, 160, "medium") >>

NoDetail ==
    [set |-> FALSE, source |-> "none", fallback_strategy |-> FALSE,
     target_return |-> 0, actions |-> <<>>,
     portfolio_context |-> [total_value |-> 0, available_cash |-> 0,
                            account_count |-> 0, optimization_timestamp |-> 0]]

ContextOf(pf, t) ==
    [total_value |-> pf.total_portfolio_value, available_cash |-> pf.total_cash,
     account_count |-> pf.account_count, optimization_timestamp |-> t]

\* The dict that generate_portfolio_strategy returns for portfolio pf when the
\* router's call ended with `res`, `answer` being the accepted provider answer and
\* t the clock: the parsed and enhanced strategy, or the fallback strategy
StrategyDetail(res, answer, pf, t) ==
    IF res.from = "fallback"
    THEN [set |-> TRUE, source |-> "fallback", fallback_strategy |-> TRUE,
          target_return |-> FallbackStrategy.target_return,
          actions |-> FallbackActions(pf.total_portfolio_value),
          portfolio_context |-> ContextOf(pf, t)]
    ELSE [set |-> TRUE, source |-> res.from, fallback_strategy |-> FALSE,
          target_return |-> res.strategy.target_return,
          actions |-> [i \in 1..Len(AnswerActions(answer)) |->
                          EnhanceAction(AnswerActions(answer)[i],
                                        pf.total_portfolio_value)],
          portfolio_context |-> ContextOf(pf, t)]

\* InvestmentTelegramBot._get_typical_price (the tickers in use; 100 if unknown)
TypicalPrice(ticker) ==
    CASE ticker = "SBER" -> 300
      [] ticker = "GAZP" -> 160
      [] ticker = "YNDX" -> 3500
      [] ticker = "TCSG" -> 3500
      [] OTHER -> 100

\* `current_price = action.get('current_price', 0); if current_price == 0:
\*  current_price = self._get_typical_price(action['ticker'])`
DisplayPrice(a) ==
    IF a.has_price /\ a.current_price # 0 THEN a.current_price
    ELSE TypicalPrice(a.ticker)

\* The brokerage during one handler: its next k answers to the tariff manager are
\* failures, the one after them leads to the investor tariff.
InvestorEvent ==
    [fail |-> "none", user_info |-> PlainUserInfo,
     accounts_response |->
         AccountsOf(<< <<"I", "I", "I", "S">>,
                       <<"B", "r", "o", "k", "e", "r", "a", "g", "e">> >>)]

EventAt(k) == IF k > 0 THEN FailureEvent("get_info") ELSE InvestorEvent

\* failures left after a look-up on manager t: a cached tariff asks nothing
LeftAfter(t, k) == IF t.tariff_info.set \/ k = 0 THEN k ELSE k - 1

\* _calculate_total_cost(action, price) with k failures ahead: the manager and
\* the failures left afterwards, and the cost_calculation
CalcOf(c, left) ==
    [tm |-> c.tm,
     k |-> left,
     calc |-> [made |-> TRUE, breakdown |-> c.breakdown,
               rate_tariff |-> c.rate_tariff, min_tariff |-> c.min_tariff]]

CostOne(t, a, price, k) ==
    CalcOf(Costing(t, a.action, a.quantity, price, EventAt(k),
                   EventAt(LeftAfter(t, k))),
           IF t.tariff_info.set THEN k ELSE Max(k - 2, 0))

Costed(b, c) == [tm |-> c.tm, k |-> c.k, calcs |-> Append(b.calcs, c.calc)]

\* one turn of the costing loop, from the state b
CostNext(b, a, typical) ==
    Costed(b, CostOne(b.tm, a, IF typical THEN TypicalPrice(a.ticker)
                               ELSE DisplayPrice(a), b.k))

\* the costing loop over the actions; typical tells whether the price is always
\* the typical one; after[i] is the state after the i-th action
CostAll(t, actions, k, typical) ==
    LET after[i \in 0..Len(actions)] ==
            IF i = 0 THEN [tm |-> t, k |-> k, calcs |-> <<>>]
            ELSE CostNext(after[i - 1], actions[i], typical)
    IN after[Len(actions)]

\* numbers of brokerage failures ahead of a handler
Failures == 0..2

NoSeen == [p \in PortfolioTotals |-> NoDetail]

\* The command at rest. `seen` and `prior` remember, for each portfolio, the
\* fallback strategy returned last for it and the one returned before.
TradeIdle ==
    [stage |-> "idle", auto |-> FALSE, portfolio |-> Portfolio(0),
     strategy |-> NoDetail, header |-> NoTariff, shown |-> <<>>,
     pending |-> <<>>, executed |-> <<>>, failed |-> <<>>, paid |-> 0,
     seen |-> NoSeen, prior |-> NoDetail]

\* auto_trade_command up to `await self.ai_manager.generate_portfolio_strategy(
\* portfolio_data)`: the portfolio has been fetched
AutoTradeStart(total) ==
    /\ trade.stage = "idle"
    /\ pc["r1"] = "idle"
    /\ started < MaxRequests
    /\ trade' = [trade EXCEPT !.stage = "synth", !.portfolio = Portfolio(total),
                              !.strategy = NoDetail, !.header = NoTariff,
                              !.shown = <<>>, !.executed = <<>>, !.failed = <<>>,
                              !.paid = 0, !.prior = NoDetail]
    /\ UNCHANGED <<aiVars, agg, tm, cost, mgr, ld, cb, apm>>

\* generate_portfolio_strategy is entered
SynthStart == trade.stage = "synth" /\ StartRequest("r1", "strategy")

\* what a provider does with the strategy prompt: it raises, returns no string,
\* text without JSON, broken JSON, a strategy promising 51 %, one promising 5 %
SynthOutcomes ==
    {[exc |-> TRUE, value |-> NoneValue], [exc |-> FALSE, value |-> NoneValue]}
        \cup {[exc |-> FALSE, value |-> Str(t)] :
                 t \in {x \in StrategyTexts :
                           \/ "{" \notin {x[i] : i \in 1..Len(x)}
                           \/ "H" \in {x[i] : i \in 1..Len(x)}
                           \/ {"m_target_510", "m_target_50"}
                                 \cap {x[i] : i \in 1..Len(x)} # {}}}

\* a provider answers the strategy prompt
SynthReturns(o) == trade.stage = "synth" /\ ProviderReturns("r1", o)

\* generate_portfolio_strategy returns its dict to auto_trade_command
TakeStrategy(t) ==
    /\ trade.stage = "synth"
    /\ pc["r1"] = "done"
    /\ LET res == result["r1"]
           answer == IF res.from = "fallback" THEN NoneValue
                     ELSE calls["r1"][Len(calls["r1"])].out.value
           d == StrategyDetail(res, answer, trade.portfolio, t)
           total == trade.portfolio.total_portfolio_value
       IN trade' = [trade EXCEPT
                       !.stage = "returned",
                       !.strategy = d,
                       !.prior = IF d.fallback_strategy THEN trade.seen[total]
                                 ELSE NoDetail,
                       !.seen = IF d.fallback_strategy
                                THEN [trade.seen EXCEPT ![total] = d]
                                ELSE trade.seen]
    /\ UNCHANGED <<aiVars, agg, tm, cost, mgr, ld, cb, apm>>

\* `strategy_text = self._format_strategy_response(strategy)` and its reply:
\* get_tariff_info, then the costing of every action for the text
Display(k) ==
    /\ trade.stage = "returned"
    /\ LET t0 == TmAfter(tm, "get_tariff_info", <<>>, EventAt(k))
           c == CostAll(t0, trade.strategy.actions, LeftAfter(tm, k), FALSE)
       IN /\ tm' = c.tm
          /\ trade' = [trade EXCEPT
                          !.stage = IF Len(trade.strategy.actions) = 0
                                    THEN "finished" ELSE "shown",
                          !.header = t0.ret,
                          !.shown = c.calcs]
    /\ UNCHANGED <<aiVars, agg, cost, mgr, ld, cb, apm>>

\* InvestmentTelegramBot._request_action_confirmation (manual mode)
RequestConfirmation(k) ==
    /\ trade.stage = "shown"
    /\ ~trade.auto
    /\ LET acts == trade.strategy.actions
           c == CostAll(tm, acts, k, TRUE)
       IN /\ tm' = c.tm
          /\ trade' = [trade EXCEPT
                          !.stage = "pending",
                          !.pending = [i \in 1..Len(acts) |->
                                          [acts[i] EXCEPT !.cost_calculation = c.calcs[i]]]]
    /\ UNCHANGED <<aiVars, agg, cost, mgr, ld, cb, apm>>

Executed(b, a, c) ==
    [tm |-> c.tm, k |-> c.k, executed |-> Append(b.executed, a),
     failed |-> b.failed, paid |-> b.paid + c.calc.breakdown.commission]

\* a loop turn that sends every action whatever its urgency
ExecuteNextAnyUrgency(b, a, accepted) ==
    IF accepted
    THEN Executed(b, a, CostOne(b.tm, a, TypicalPrice(a.ticker), b.k))
    ELSE [b EXCEPT !.failed = Append(@, a)]

\* one turn of the loop of _execute_automated_actions, from the state b; accepted
\* tells whether the brokerage takes the order
ExecuteNext(b, a, accepted) ==
    IF a.urgency # "high" THEN b
    ELSE IF accepted
    THEN Executed(b, a, CostOne(b.tm, a, TypicalPrice(a.ticker), b.k))
    ELSE [b EXCEPT !.failed = Append(@, a)]

\* the loop of _execute_automated_actions; ok is the set of positions whose
\* order the brokerage accepts; after[i] is the state after the i-th action
ExecuteAll(t, actions, k, ok) ==
    LET after[i \in 0..Len(actions)] ==
            IF i = 0
            THEN [tm |-> t, k |-> k, executed |-> <<>>, failed |-> <<>>, paid |-> 0]
            ELSE ExecuteNext(after[i - 1], actions[i], i \in ok)
    IN after[Len(actions)]

\* InvestmentTelegramBot._execute_automated_actions (automatic mode)
ExecuteAutomated(ok, k) ==
    /\ trade.stage = "shown"
    /\ trade.auto
    /\ LET acts == trade.strategy.actions
           e == ExecuteAll(tm, acts, k, ok)
       IN /\ ok \subseteq {i \in 1..Len(acts) : acts[i].urgency = "high"}
          /\ tm' = e.tm
          /\ trade' = [trade EXCEPT !.stage = "executed", !.executed = e.executed,
                                    !.failed = e.failed, !.paid = e.paid]
    /\ UNCHANGED <<aiVars, agg, cost, mgr, ld, cb, apm>>

\* auto_trade_command returns
AutoTradeEnd ==
    /\ trade.stage \in {"finished", "pending", "executed"}
    /\ trade' = [trade EXCEPT !.stage = "idle"]
    /\ UNCHANGED <<aiVars, agg, tm, cost, mgr, ld, cb, apm>>

\* the strategy call's slot is free again
SynthConsume == trade.stage # "synth" /\ Consume("r1")

SynthNext ==
    \/ \E total \in PortfolioTotals : AutoTradeStart(total)
    \/ SynthStart
    \/ \E o \in SynthOutcomes : SynthReturns(o)
    \/ \E t \in Times : TakeStrategy(t)
    \/ \E k \in Failures : Display(k)
    \/ \E k \in Failures : RequestConfirmation(k)
    \/ \E k \in Failures : \E ok \in SUBSET (1..3) : ExecuteAutomated(ok, k)
    \/ AutoTradeEnd
    \/ SynthConsume

(***************************************************************************)
(* Credentials and network sessions of the providers: AIManager.-          *)
(* _init_providers, get_provider_info and close, the lazily opened          *)
(* aiohttp session of OpenRouterAI and DeepSeekAI                           *)
(***************************************************************************)
ProviderNames == {"openrouter", "deepseek"}

\* os.getenv of the two API keys; an unset variable and an empty one are both
\* falsy and are the empty text here
KeyTexts ==
    { <<>>,
      <<"s", "k", "-", "o", "r", "-", "1">>,
      <<"s", "k", "-", "o", "r">>,
      <<"s", "k", "-", "1">>,
      <<"k", "e", "y">> }

\* str.startswith
StartsWith(text, prefix) ==
    /\ Len(text) >= Len(prefix)
    /\ SubSeq(text, 1, Len(prefix)) = prefix

\* the mutation: both providers are tested for 'sk-'
KeyPrefixAlike(name) == <<"s", "k", "-">>

\* the prefix _init_providers expects of a provider's key
KeyPrefix(name) ==
    IF name = "openrouter" THEN <<"s", "k", "-", "o", "r", "-">>
    ELSE <<"s", "k", "-">>

\* api_key and api_key.startswith(...)
KeyAccepted(name, api_key) == api_key # <<>> /\ StartsWith(api_key, KeyPrefix(name))

\* the providers _init_providers registers for the keys of the environment
ShapedKeys(keys) == {name \in ProviderNames : KeyAccepted(name, keys[name])}

\* keys of the environment that register exactly the given providers
KeysFor(names) ==
    [name \in ProviderNames |->
        IF name \in names THEN KeyPrefix(name) \o <<"1">> ELSE <<>>]

NoInfo ==
    [set |-> FALSE, active_provider |-> "none", available_providers |-> <<>>,
     fallback_available |-> FALSE, providers_count |-> 0, initialized |-> FALSE]

\* AIManager.get_provider_info
GetProviderInfo ==
    [set |-> TRUE, active_provider |-> active, available_providers |-> providers,
     fallback_available |-> TRUE, providers_count |-> Len(providers),
     initialized |-> TRUE]

\* hasattr(provider, 'close'): OpenRouterAI defines close, DeepSeekAI only
\* __aexit__
HasClose(name) == name = "openrouter"


\* the manager after __init__ with the given keys in the environment: no session
\* is open, close has not been called
MgrWith(keys) ==
    [keys |-> keys,
     session |-> [name \in ProviderNames |-> "none"],
     pc |-> "running", at |-> 0,
     held |-> {},
     closed |-> [name \in ProviderNames |-> 0],
     errors |-> 0,
     info |-> NoInfo]

MgrAtRest == mgr = MgrWith(KeysFor(Registered))

\* generate_response of a registered provider: the session is created on the
\* first call and kept
ProviderCall(name) ==
    /\ mgr.pc # "closing"
    /\ name \in Registered
    /\ mgr' = [mgr EXCEPT !.session[name] = "open", !.pc = "running"]
    /\ UNCHANGED <<aiVars, agg, tm, cost, trade, ld, cb, apm>>

ProviderInfoCall ==
    /\ mgr.pc # "closing"
    /\ mgr' = [mgr EXCEPT !.info = GetProviderInfo]
    /\ UNCHANGED <<aiVars, agg, tm, cost, trade, ld, cb, apm>>

\* AIManager.close is called
CloseStart ==
    /\ mgr.pc # "closing"
    /\ mgr' = [mgr EXCEPT !.pc = "closing", !.at = 1,
                          !.held = {name \in Registered : mgr.session[name] = "open"},
                          !.closed = [name \in ProviderNames |-> 0],
                          !.errors = 0]
    /\ UNCHANGED <<aiVars, agg, tm, cost, trade, ld, cb, apm>>

\* provider.close() of OpenRouterAI; session.close() either succeeds, and the
\* session is dropped, or raises, and the provider keeps it
ProviderClosed(m, name, raises) ==
    IF m.session[name] # "open" THEN m
    ELSE IF raises
         THEN [m EXCEPT !.closed[name] = @ + 1, !.errors = @ + 1]
         ELSE [m EXCEPT !.closed[name] = @ + 1, !.session[name] = "none"]

\* one turn of the loop of AIManager.close
CloseStep(raises) ==
    /\ mgr.pc = "closing"
    /\ mgr.at <= Len(providers)
    /\ LET name == providers[mgr.at]
           m == IF HasClose(name) THEN ProviderClosed(mgr, name, raises) ELSE mgr
       IN mgr' = [m EXCEPT !.at = @ + 1]
    /\ UNCHANGED <<aiVars, agg, tm, cost, trade, ld, cb, apm>>

\* AIManager.close returns
CloseReturn ==
    /\ mgr.pc = "closing"
    /\ mgr.at > Len(providers)
    /\ mgr' = [mgr EXCEPT !.pc = "closed", !.at = 0]
    /\ UNCHANGED <<aiVars, agg, tm, cost, trade, ld, cb, apm>>

LifeNext ==
    \/ \E name \in ProviderNames : ProviderCall(name)
    \/ ProviderInfoCall
    \/ CloseStart
    \/ \E raises \in BOOLEAN : CloseStep(raises)
    \/ CloseReturn

(***************************************************************************)
(* The dependency loader and the brokerage client: app/loader.py           *)
(***************************************************************************)
\* values of TINKOFF_SANDBOX
SandboxTexts ==
    { <<"t", "r", "u", "e">>, <<"T", "r", "u", "e">>,
      <<"f", "a", "l", "s", "e">>, <<"1">> }

\* os.environ as create_tinkoff_client reads it: whether TINKOFF_TOKEN is set and
\* non-empty, whether TINKOFF_SANDBOX is set, and its text
Environments ==
    [token_set : BOOLEAN, sandbox_set : {TRUE}, sandbox : SandboxTexts]
        \cup [token_set : BOOLEAN, sandbox_set : {FALSE}, sandbox : {<<>>}]

\* The brokerage API: what creating tinkoff.invest.Client does and what the
\* endpoints answer (open_sandbox_account; the accounts endpoints, "some" or "none"
\* accounts; the portfolio and positions endpoints)
ApiStates ==
    [client : {"ok", "ConnectionError"},
     open : {"ok", "RequestError"},
     accounts : {"some", "none", "RequestError"},
     other : {"ok", "RequestError"}]

ApiErrors == {"ConnectionError", "RequestError"}

ClientMethods == {"get_accounts", "get_portfolio", "get_positions", "create_sandbox_account"}

\* the mutation: positions are always read from the production endpoint
EndpointPositionsProduction(use_sandbox, method) ==
    IF method = "get_positions" THEN "operations.get_positions"
    ELSE IF method = "create_sandbox_account" THEN "sandbox.open_sandbox_account"
    ELSE IF use_sandbox
         THEN (IF method = "get_accounts" THEN "sandbox.get_sandbox_accounts"
               ELSE "sandbox.get_sandbox_portfolio")
         ELSE (IF method = "get_accounts" THEN "users.get_accounts"
               ELSE "operations.get_portfolio")

\* the endpoint a method of TinkoffInvestClient calls
Endpoint(use_sandbox, method) ==
    IF method = "create_sandbox_account" THEN "sandbox.open_sandbox_account"
    ELSE IF use_sandbox
         THEN (IF method = "get_accounts" THEN "sandbox.get_sandbox_accounts"
               ELSE IF method = "get_portfolio" THEN "sandbox.get_sandbox_portfolio"
               ELSE "sandbox.get_sandbox_positions")
         ELSE (IF method = "get_accounts" THEN "users.get_accounts"
               ELSE IF method = "get_portfolio" THEN "operations.get_portfolio"
               ELSE "operations.get_positions")

\* what the API answers on an endpoint
Answer(api, endpoint) ==
    IF endpoint = "sandbox.open_sandbox_account" THEN api.open
    ELSE IF endpoint \in {"sandbox.get_sandbox_accounts", "users.get_accounts"}
         THEN api.accounts
    ELSE api.other

\* `with Client(token=...) as client: client.<endpoint>(...)`: the endpoints
\* called, whether the API was contacted, the exception that leaves the block and
\* the value returned
CallEndpoint(api, endpoint) ==
    IF api.client # "ok"
    THEN [endpoints |-> <<>>, contacted |-> TRUE, raised |-> api.client, value |-> "none"]
    ELSE IF Answer(api, endpoint) \in ApiErrors
         THEN [endpoints |-> <<endpoint>>, contacted |-> TRUE,
               raised |-> Answer(api, endpoint), value |-> "none"]
         ELSE [endpoints |-> <<endpoint>>, contacted |-> TRUE,
               raised |-> "none", value |-> Answer(api, endpoint)]

\* A method of TinkoffInvestClient: `except Exception: ...; raise` gives the
\* caller the exception of the endpoint
ClientMethod(api, use_sandbox, method) ==
    IF method = "create_sandbox_account" /\ ~use_sandbox
    THEN [endpoints |-> <<>>, contacted |-> FALSE, raised |-> "RuntimeError",
          value |-> "none"]
    ELSE CallEndpoint(api, Endpoint(use_sandbox, method))

NoClient == [kind |-> "none", use_sandbox |-> FALSE]

\* create_tinkoff_client(): ValueError without a token
CreateTinkoffClient(env) ==
    IF ~env.token_set
    THEN [raised |-> "ValueError", client |-> NoClient]
    ELSE [raised |-> "none",
          client |-> [kind |-> "real",
                      use_sandbox |-> IF env.sandbox_set
                                      THEN Lower(env.sandbox) = <<"t", "r", "u", "e">>
                                      ELSE TRUE]]

\* _try_create_sandbox_account
TryCreateSandboxAccount(api, c) ==
    LET made == ClientMethod(api, c.use_sandbox, "create_sandbox_account")
        got == ClientMethod(api, c.use_sandbox, "get_accounts")
    IN IF made.raised # "none"
       THEN [ok |-> FALSE, endpoints |-> made.endpoints]
       ELSE [ok |-> got.raised = "none", endpoints |-> made.endpoints \o got.endpoints]

\* _try_use_existing_accounts, also the test of _initialize_production_client
TryUseExistingAccounts(api, c) ==
    LET got == ClientMethod(api, c.use_sandbox, "get_accounts")
    IN [ok |-> got.raised = "none" /\ got.value = "some", endpoints |-> got.endpoints]

\* _try_basic_connection
TryBasicConnection(api, c) ==
    LET got == CallEndpoint(api, IF c.use_sandbox THEN "sandbox.get_sandbox_accounts"
                                  ELSE "users.get_accounts")
    IN [ok |-> got.raised = "none", endpoints |-> got.endpoints]

\* _initialize_sandbox_client: the strategies in order, up to the first that
\* succeeds
InitializeSandboxClient(api, c) ==
    LET s1 == TryCreateSandboxAccount(api, c)
        s2 == TryUseExistingAccounts(api, c)
        s3 == TryBasicConnection(api, c)
    IN IF s1.ok THEN s1
       ELSE IF s2.ok THEN [ok |-> TRUE, endpoints |-> s1.endpoints \o s2.endpoints]
       ELSE [ok |-> s3.ok, endpoints |-> s1.endpoints \o s2.endpoints \o s3.endpoints]

\* _initialize_tinkoff_client: whether a client was registered, which, and the
\* endpoints called
InitializeTinkoffClient(env, api) ==
    LET made == CreateTinkoffClient(env)
        c == made.client
        tried == IF c.use_sandbox THEN InitializeSandboxClient(api, c)
                 ELSE TryUseExistingAccounts(api, c)
    IN IF made.raised # "none"
       THEN [ok |-> FALSE, client |-> NoClient, endpoints |-> <<>>]
       ELSE [ok |-> tried.ok, client |-> IF tried.ok THEN c ELSE NoClient,
             endpoints |-> tried.endpoints]

\* create_tinkoff_fallback_client(): the mock client, use_sandbox True
FallbackClient == [kind |-> "fallback", use_sandbox |-> TRUE]

NoCall == [use_sandbox |-> FALSE, method |-> "none", contacted |-> FALSE, value |-> "none"]

\* a new DependencyLoader in the given environment
LdWith(env, api) ==
    [env |-> env, api |-> api,
     is_initialized |-> FALSE, client |-> NoClient, cleaned |-> FALSE,
     op |-> "none", ret |-> FALSE, got |-> NoClient, raised |-> "none",
     endpoints |-> <<>>, call |-> NoCall]

LdNew ==
    LdWith([token_set |-> FALSE, sandbox_set |-> FALSE, sandbox |-> <<>>],
           [client |-> "ok", open |-> "ok", accounts |-> "some", other |-> "ok"])

\* the mutation: cleanup clears the dependencies only
CleanedUpKeepsFlag(l) == [l EXCEPT !.client = NoClient, !.cleaned = TRUE]

\* DependencyLoader.cleanup on loader l: disconnect() does nothing, the
\* dependencies are cleared; `cleaned` remembers that cleanup was called
CleanedUp(l) ==
    [l EXCEPT !.client = NoClient, !.is_initialized = FALSE, !.cleaned = TRUE]

\* DependencyLoader.get_tinkoff_client
ClientOf(l) ==
    IF ~l.is_initialized THEN [raised |-> "RuntimeError", got |-> NoClient]
    ELSE IF l.client.kind = "none"
         THEN [raised |-> "RuntimeError", got |-> NoClient]
         ELSE [raised |-> "none", got |-> l.client]

\* the brokerage becomes available or unavailable
ApiChanges(api) ==
    /\ api # ld.api
    /\ ld' = [ld EXCEPT !.api = api, !.op = "api", !.ret = FALSE, !.got = NoClient,
                        !.raised = "none", !.endpoints = <<>>, !.call = NoCall]
    /\ UNCHANGED <<aiVars, agg, tm, cost, trade, mgr, cb, apm>>

\* DependencyLoader.initialize, called directly or through initialize_app: the
\* real client when its test passes, else the fallback client; the fallback's
\* constructor cannot fail, so the handler `except Exception: self.cleanup();
\* return False` is never entered
Initialize(through) ==
    /\ LET real == InitializeTinkoffClient(ld.env, ld.api)
       IN ld' = [ld EXCEPT !.client = IF real.ok THEN real.client ELSE FallbackClient,
                           !.is_initialized = TRUE,
                           !.op = through, !.ret = TRUE, !.got = NoClient,
                           !.raised = "none", !.endpoints = real.endpoints,
                           !.call = NoCall]
    /\ UNCHANGED <<aiVars, agg, tm, cost, trade, mgr, cb, apm>>

Cleanup ==
    /\ ld' = [CleanedUp(ld) EXCEPT !.op = "cleanup", !.ret = FALSE, !.got = NoClient,
                                   !.raised = "none", !.endpoints = <<>>,
                                   !.call = NoCall]
    /\ UNCHANGED <<aiVars, agg, tm, cost, trade, mgr, cb, apm>>

GetTinkoffClient ==
    /\ ld' = [ld EXCEPT !.op = "get_tinkoff_client", !.ret = FALSE,
                        !.got = ClientOf(ld).got, !.raised = ClientOf(ld).raised,
                        !.endpoints = <<>>, !.call = NoCall]
    /\ UNCHANGED <<aiVars, agg, tm, cost, trade, mgr, cb, apm>>

\* a method of a TinkoffInvestClient(token, use_sandbox) is called
ClientCall(use_sandbox, method) ==
    /\ LET r == ClientMethod(ld.api, use_sandbox, method)
       IN ld' = [ld EXCEPT !.op = "client", !.ret = FALSE, !.got = NoClient,
                           !.raised = r.raised, !.endpoints = r.endpoints,
                           !.call = [use_sandbox |-> use_sandbox, method |-> method,
                                     contacted |-> r.contacted, value |-> r.value]]
    /\ UNCHANGED <<aiVars, agg, tm, cost, trade, mgr, cb, apm>>

LoaderNext ==
    \/ \E api \in ApiStates : ApiChanges(api)
    \/ \E through \in {"initialize", "initialize_app"} : Initialize(through)
    \/ Cleanup
    \/ GetTinkoffClient
    \/ \E use_sandbox \in BOOLEAN : \E method \in ClientMethods :
          ClientCall(use_sandbox, method)

(***************************************************************************)
(* The confirmation of trading actions in manual mode:                     *)
(* InvestmentTelegramBot._request_action_confirmation and                  *)
(* handle_confirmation_callback (app/telegram_bot.py)                      *)
(***************************************************************************)
MaxTradeRequests == 2

Users == {"u1", "u2"}

\* the coroutines that can run handle_confirmation_callback at the same time
Handlers == {"h1", "h2"}

\* the tickers of the actions of a strategy
StrategyTickers == {<<>>, <<"SBER">>, <<"YNDX", "GAZP">>}

\* query.data of a button: "show_commissions", "confirm_all", "cancel_all", or
\* "confirm_<index>" with the index of enumerate(), from 0
CallbackData ==
    [kind : {"show_commissions", "confirm_all", "cancel_all"}, index : {0}]
        \cup [kind : {"confirm"}, index : 0..1]

\* the actions of the strategy of /auto_trade request number req
ActionsOf(req, tickers) ==
    [i \in 1..Len(tickers) |-> [req |-> req, idx |-> i, ticker |-> tickers[i]]]

HandlerIdle ==
    [pc |-> "idle", user |-> "u1", data |-> [kind |-> "cancel_all", index |-> 0],
     msg |-> 0, actions |-> <<>>, at |-> 0, found |-> FALSE]

\* pending_actions (empty list: no entry), the confirmation messages sent (their
\* user and number of action buttons), the handlers, the orders placed and how
\* often each action was ordered
CbNew ==
    [pending |-> [u \in Users |-> <<>>],
     messages |-> <<>>,
     handler |-> [h \in Handlers |-> HandlerIdle],
     orders |-> {},
     times |-> [req \in 1..MaxTradeRequests |-> [idx \in 1..2 |-> 0]]]

Quiet == \A h \in Handlers : cb.handler[h].pc = "idle"

\* auto_trade_command in manual mode for a strategy with these actions: the
\* strategy is shown and, if it has actions, _request_action_confirmation stores
\* them for the user and sends the buttons
AutoTradeManual(user, tickers) ==
    /\ Len(cb.messages) < MaxTradeRequests
    /\ LET req == Len(cb.messages) + 1
       IN cb' = [cb EXCEPT
                    !.messages = Append(@, [user |-> user, buttons |-> Len(tickers)]),
                    !.pending[user] = IF tickers = <<>> THEN @
                                      ELSE ActionsOf(req, tickers)]
    /\ UNCHANGED <<aiVars, agg, tm, cost, trade, mgr, ld, apm>>

\* the buttons the user can press: those of a confirmation message sent to them
Pressable(user, data, msg) ==
    /\ msg \in 1..Len(cb.messages)
    /\ cb.messages[msg].user = user
    /\ cb.messages[msg].buttons > 0
    /\ data.kind = "confirm" => data.index < cb.messages[msg].buttons

\* `0 <= action_index < len(actions)`
InRange(data, actions) == data.index < Len(actions)

\* the mutation: the handler ends without the clean-up
CleanedNot(pending, user) == pending

\* `if user_id in self.pending_actions: del self.pending_actions[user_id]`
Cleaned(pending, user) == [pending EXCEPT ![user] = <<>>]

\* handle_confirmation_callback up to its first order, or to its end when it
\* places none: `actions = self.pending_actions.get(user_id, [])`, then the
\* branch on query.data
CallbackStart(h, user, data, msg) ==
    /\ cb.handler[h].pc = "idle"
    /\ Pressable(user, data, msg)
    /\ LET actions == cb.pending[user]
           seen == [HandlerIdle EXCEPT !.user = user, !.data = data, !.msg = msg,
                                       !.actions = actions, !.found = actions # <<>>]
       IN IF actions = <<>> \/ data.kind = "show_commissions"
          THEN cb' = [cb EXCEPT !.handler[h] = [seen EXCEPT !.pc = "done"]]
          ELSE IF data.kind = "cancel_all"
                  \/ (data.kind = "confirm" /\ ~InRange(data, actions))
          THEN cb' = [cb EXCEPT !.handler[h] = [seen EXCEPT !.pc = "done"],
                                !.pending = Cleaned(@, user)]
          ELSE cb' = [cb EXCEPT !.handler[h] =
                         [seen EXCEPT !.pc = "executing",
                                      !.at = IF data.kind = "confirm"
                                             THEN data.index + 1 ELSE 1]]
    /\ UNCHANGED <<aiVars, agg, tm, cost, trade, mgr, ld, apm>>

\* `result = await self._execute_trading_action(action)` returns; success tells
\* whether the order was placed; after the last action the clean-up
ExecuteStep(h, success) ==
    /\ cb.handler[h].pc = "executing"
    /\ LET hd == cb.handler[h]
           action == hd.actions[hd.at]
           last == hd.data.kind = "confirm" \/ hd.at = Len(hd.actions)
           order == [user |-> hd.user, data |-> hd.data, msg |-> hd.msg,
                     req |-> action.req, idx |-> action.idx]
       IN cb' = [cb EXCEPT
                    !.orders = IF success THEN @ \cup {order} ELSE @,
                    !.times[action.req][action.idx] = IF success THEN @ + 1 ELSE @,
                    !.handler[h] = IF last THEN [hd EXCEPT !.pc = "done"]
                                   ELSE [hd EXCEPT !.at = @ + 1],
                    !.pending = IF last THEN Cleaned(@, hd.user) ELSE @]
    /\ UNCHANGED <<aiVars, agg, tm, cost, trade, mgr, ld, apm>>

\* the handler has returned
HandlerReturn(h) ==
    /\ cb.handler[h].pc = "done"
    /\ cb' = [cb EXCEPT !.handler[h] = HandlerIdle]
    /\ UNCHANGED <<aiVars, agg, tm, cost, trade, mgr, ld, apm>>

\* one update at a time, as the Application built by run() dispatches them
NextCommand(user, tickers) == Quiet /\ AutoTradeManual(user, tickers)

NextCallback(user, data, msg) == Quiet /\ CallbackStart("h1", user, data, msg)

ConfirmNext ==
    \/ \E user \in Users : \E tickers \in StrategyTickers : NextCommand(user, tickers)
    \/ \E user \in Users : \E data \in CallbackData : \E msg \in 1..MaxTradeRequests :
          NextCallback(user, data, msg)
    \/ \E success \in BOOLEAN : ExecuteStep("h1", success)
    \/ HandlerReturn("h1")

\* one confirmation request of one user
RaceCommand(tickers) == cb.messages = <<>> /\ AutoTradeManual("u1", tickers)

\* the callbacks of that request, the handlers interleaved at their awaits
RaceNext ==
    \/ \E tickers \in StrategyTickers \ {<<>>} : RaceCommand(tickers)
    \/ \E h \in Handlers : \E data \in CallbackData : CallbackStart(h, "u1", data, 1)
    \/ \E h \in Handlers : \E success \in BOOLEAN : ExecuteStep(h, success)
    \/ \E h \in Handlers : HandlerReturn(h)

(***************************************************************************)
(* The AutoPortfolioManager: services/ai_strategy/auto_portfolio_manager.py *)
(***************************************************************************)
MaxResponseLines == 2
MaxHeld == 3

\* _get_all_tickers: the stocks and bonds of _load_russian_instruments
KnownTickers ==
    { <<"S", "B", "E", "R">>,
      <<"V", "T", "B", "R">>,
      <<"G", "A", "Z", "P">>,
      <<"L", "K", "O", "H">>,
      <<"R", "O", "S", "N">>,
      <<"Y", "N", "D", "X">>,
      <<"T", "C", "S", "G">>,
      <<"G", "M", "K", "N">>,
      <<"P", "O", "L", "Y">>,
      <<"M", "O", "E", "X">>,
      <<"S", "U", "2", "6", "2", "3", "0">>,
      <<"S", "U", "2", "6", "2", "3", "8">>,
      <<"S", "U", "2", "6", "2", "4", "2">> }

\* words of an AI answer
Words ==
    { <<"b", "u", "y">>,
      <<"S", "E", "L", "L">>,
      <<"H", "O", "L", "D">>,
      <<"y", "n", "d", "x">>,
      <<"A", "A", "P", "L">>,
      <<"S", "U", "2", "6", "2", "3", "0">>,
      <<"1", "5", "0", "0", "0">> }

\* A line of an AI answer, as the words that split() finds in it: every line of
\* four words, and lines with a comment mark, a numbered action, an unknown
\* ticker, a long second word, a ticker further right, too few words
Lines4 == [1..4 -> Words]

ResponseLines ==
    { <<>>,
      <<<<"#">>, <<"b", "u", "y">>, <<"y", "n", "d", "x">>, <<"1", "5", "0", "0", "0">>, <<"x">>>>,
      <<<<"1", ".", "B", "U", "Y">>, <<"G", "A", "Z", "P">>, <<"8", "0", "0", "0">>, <<"x">>, <<"5", "%">>>>,
      <<<<"B", "U", "Y">>, <<"A", "A", "P", "L">>, <<"1", "5", "0", "0", "0">>, <<"g", "r", "o", "w", "t", "h">>>>,
      <<<<"S", "E", "L", "L">>, <<"G", "A", "Z", "P", "R", "O", "M", "N", "E", "F", "T">>, <<"8", "0", "0", "0">>, <<"x">>>>,
      <<<<"b", "u", "y">>, <<"t", "h", "e">>, <<"d", "i", "p">>, <<"i", "n">>, <<"m", "o", "e", "x">>, <<"n", "o", "w">>>>,
      <<<<"B", "U", "Y">>, <<"Y", "N", "D", "X">>, <<"1", "5", "0", "0", "0">>>>,
      <<<<"H", "O", "L", "D">>, <<"S", "B", "E", "R">>, <<"1">>, <<"x">>>> }

SeqsOfLines ==
    UNION {[1..n -> ResponseLines] : n \in 0..MaxResponseLines}

NoDecision == [made |-> FALSE, action |-> <<>>, ticker |-> <<>>]

\* `for part in parts[2:6]: if part in self._get_all_tickers(): ticker = part;
\* break`: the first known ticker among the third to sixth word, else the ticker
\* found so far
SearchTicker(parts, ticker) ==
    LET at == {i \in 3..6 : i <= Len(parts) /\ parts[i] \in KnownTickers}
    IN IF at = {} THEN ticker
       ELSE parts[CHOOSE i \in at : \A j \in at : i <= j]

\* AutoPortfolioManager._parse_decision_line on the words of a line: the action
\* and the ticker of the decision (amount, yield and rationale are left out)
ParseDecisionLine(words) ==
    LET parts == [i \in 1..Len(words) |-> Upper(words[i])]
    IN IF Len(parts) < 4 THEN NoDecision
       ELSE IF ~Contains(<<"B", "U", "Y">>, parts[1])
               /\ ~Contains(<<"S", "E", "L", "L">>, parts[1])
       THEN NoDecision
       ELSE LET action == IF Contains(<<"B", "U", "Y">>, parts[1])
                          THEN <<"B", "U", "Y">> ELSE <<"S", "E", "L", "L">>
                second == IF Len(parts[2]) <= 6 THEN parts[2] ELSE <<>>
                ticker == IF second = <<>> \/ second \notin KnownTickers
                          THEN SearchTicker(parts, second) ELSE second
            IN IF ticker = <<>> THEN NoDecision
               ELSE [made |-> TRUE, action |-> action, ticker |-> ticker]

\* `if not line or line.startswith('#'): continue`
Skipped(words) == words = <<>> \/ words[1][1] = "#"

\* AutoPortfolioManager._parse_trading_decisions on the lines of an answer
ParseTradingDecisions(lines) ==
    LET parsed == [i \in 1..Len(lines) |->
                      IF Skipped(lines[i]) THEN NoDecision
                      ELSE ParseDecisionLine(lines[i])]
    IN SelectSeq(parsed, LAMBDA d : d.made)

\* available_cash of the portfolio, in roubles
CashValues == {0, 5000, 5001, 10000, 10001, 40000, 100000}

\* a position of portfolio_data: value, percentage, type and sector
HeldPositions ==
    { [ticker |-> "SBER", type |-> "stock", value |-> 9000, percentage |-> 2, sector |-> "Finance"],
      [ticker |-> "YNDX", type |-> "stock", value |-> 3000, percentage |-> 12, sector |-> "IT"],
      [ticker |-> "GMKN", type |-> "stock", value |-> 2000, percentage |-> 4, sector |-> "Metals"],
      [ticker |-> "VTBR", type |-> "stock", value |-> 0, percentage |-> 0 - 3, sector |-> "none"],
      [ticker |-> "SU26238", type |-> "bond", value |-> 4000, percentage |-> 2, sector |-> "none"],
      [ticker |-> "LKOH", type |-> "stock", value |-> 1000, percentage |-> 5, sector |-> "Energy"] }

Holdings == UNION {[1..n -> HeldPositions] : n \in 0..MaxHeld}

\* the positions a sum of _analyze_sectors and _calculate_allocation takes: all of
\* them, those of one sector, or those that are not stocks
Kept(kept, p) ==
    CASE kept = "all" -> TRUE
      [] kept = "bonds" -> p.type # "stock"
      [] OTHER -> p.sector = kept

\* sum(pos['value'] for pos in positions if <kept>)
ValueOf(positions, kept) ==
    LET sum[i \in 0..Len(positions)] ==
            IF i = 0 THEN 0
            ELSE sum[i - 1] + (IF Kept(kept, positions[i]) THEN positions[i].value ELSE 0)
    IN sum[Len(positions)]

\* `share.get(key, 0) < limit` for the dict of _calculate_allocation or
\* _analyze_sectors, which is empty when the total value is 0: the share is
\* in / total * 100
ShareBelow(in, total, limit) ==
    IF total = 0 THEN 0 < limit ELSE in * 100 < limit * total

\* min(available_cash * Decimal(pct / 100), Decimal(cap)), in hundredths of a
\* rouble
AmountOf(available_cash, pct, cap) ==
    IF available_cash * pct < cap * 100 THEN available_cash * pct ELSE cap * 100

Decision(ticker, amount) ==
    [action |-> <<"B", "U", "Y">>, ticker |-> ticker, amount |-> amount,
     source |-> "algorithm"]

\* the mutation: all the decisions are returned
FirstFourAll(decisions) == decisions

\* decisions[:4]
FirstFour(decisions) ==
    IF Len(decisions) <= 4 THEN decisions ELSE SubSeq(decisions, 1, 4)

\* AutoPortfolioManager._generate_algorithmic_decisions
GenerateAlgorithmicDecisions(available_cash, positions) ==
    LET total == ValueOf(positions, "all")
        it == ValueOf(positions, "IT")
        metals == ValueOf(positions, "Metals")
        bonds == ValueOf(positions, "bonds")
        rule1 == IF available_cash > 10000
                 THEN (IF ShareBelow(it, total, 15)
                       THEN <<Decision("YNDX", AmountOf(available_cash, 30, 15000))>>
                       ELSE <<>>)
                      \o (IF ShareBelow(metals, total, 10)
                          THEN <<Decision("GMKN", AmountOf(available_cash, 20, 10000))>>
                          ELSE <<>>)
                 ELSE <<>>
        weak == SelectSeq(positions,
                          LAMBDA p : p.percentage < 5 /\ p.type = "stock"
                                     /\ available_cash > 5000)
        rule2 == [i \in 1..Len(weak) |->
                     Decision(weak[i].ticker, AmountOf(available_cash, 15, 8000))]
        rule3 == IF ShareBelow(bonds, total, 20) /\ available_cash > 5000
                 THEN <<Decision("SU26230", AmountOf(available_cash, 25, 12000))>>
                 ELSE <<>>
    IN FirstFour(rule1 \o rule2 \o rule3)

ApmNew ==
    [op |-> "none", line |-> <<>>, decision |-> NoDecision,
     response |-> <<>>, parsed |-> <<>>,
     available_cash |-> 0, positions |-> <<>>, decisions |-> <<>>]

ParseLineCall(words) ==
    /\ apm.op = "none"
    /\ apm' = [ApmNew EXCEPT !.op = "_parse_decision_line", !.line = words,
                             !.decision = ParseDecisionLine(words)]
    /\ UNCHANGED <<aiVars, agg, tm, cost, trade, mgr, ld, cb>>

ParseResponseCall(lines) ==
    /\ apm.op = "none"
    /\ apm' = [ApmNew EXCEPT !.op = "_parse_trading_decisions", !.response = lines,
                             !.parsed = ParseTradingDecisions(lines)]
    /\ UNCHANGED <<aiVars, agg, tm, cost, trade, mgr, ld, cb>>

AlgorithmicCall(available_cash, positions) ==
    /\ apm.op = "none"
    /\ apm' = [ApmNew EXCEPT !.op = "_generate_algorithmic_decisions",
                             !.available_cash = available_cash,
                             !.positions = positions,
                             !.decisions = GenerateAlgorithmicDecisions(available_cash,
                                                                        positions)]
    /\ UNCHANGED <<aiVars, agg, tm, cost, trade, mgr, ld, cb>>

\* the caller has taken the result
ApmReturn ==
    /\ apm.op # "none"
    /\ apm' = ApmNew
    /\ UNCHANGED <<aiVars, agg, tm, cost, trade, mgr, ld, cb>>

ApmNext ==
    \/ \E words \in Lines4 \cup ResponseLines : ParseLineCall(words)
    \/ \E lines \in SeqsOfLines : ParseResponseCall(lines)
    \/ \E available_cash \in CashValues : \E positions \in Holdings :
          AlgorithmicCall(available_cash, positions)
    \/ ApmReturn

(***************************************************************************)
(* Specifications: one per subsystem, the other subsystems at rest          *)
(***************************************************************************)
\* the router with no credentials and no request
AIQuiet ==
    /\ InitProviders({})
    /\ pc = [r \in Reqs |-> "idle"]
    /\ kind = [r \in Reqs |-> "response"]
    /\ cur = [r \in Reqs |-> "none"]
    /\ iter = [r \in Reqs |-> 0]
    /\ calls = [r \in Reqs |-> <<>>]
    /\ startActive = [r \in Reqs |-> "none"]
    /\ alone = [r \in Reqs |-> TRUE]
    /\ prev = [r \in Reqs |-> "none"]
    /\ result = [r \in Reqs |-> NoResult]
    /\ lastFailover = "none"
    /\ started = 0

Init ==
    /\ AIInit
    /\ agg = AggIdle
    /\ tm = TmNew
    /\ cost = NoCost
    /\ trade = TradeIdle
    /\ MgrAtRest
    /\ ld = LdNew
    /\ cb = CbNew
    /\ apm = ApmNew

Next == AINext

Spec == Init /\ [][Next]_vars

InitAgg ==
    /\ AIQuiet
    /\ agg = AggIdle
    /\ tm = TmNew
    /\ cost = NoCost
    /\ trade = TradeIdle
    /\ MgrAtRest
    /\ ld = LdNew
    /\ cb = CbNew
    /\ apm = ApmNew

SpecAgg == InitAgg /\ [][AggNext]_vars

InitTariff ==
    /\ AIQuiet
    /\ agg = AggIdle
    /\ tm = TmNew
    /\ cost = NoCost
    /\ trade = TradeIdle
    /\ MgrAtRest
    /\ ld = LdNew
    /\ cb = CbNew
    /\ apm = ApmNew

SpecTariff == InitTariff /\ [][TariffNext]_vars

SpecDetect == InitTariff /\ [][DetectNext]_vars

\* settings.AUTO_TRADING_MODE is fixed when the process starts
InitSynth ==
    /\ AIInit
    /\ agg = AggIdle
    /\ tm = TmNew
    /\ cost = NoCost
    /\ \E auto \in BOOLEAN : trade = [TradeIdle EXCEPT !.auto = auto]
    /\ MgrAtRest
    /\ ld = LdNew
    /\ cb = CbNew
    /\ apm = ApmNew

SpecSynth == InitSynth /\ [][SynthNext]_vars

\* the process starts with any keys in the environment
InitLife ==
    /\ \E keys \in [ProviderNames -> KeyTexts] :
          /\ InitProviders(ShapedKeys(keys))
          /\ mgr = MgrWith(keys)
    /\ pc = [r \in Reqs |-> "idle"]
    /\ kind = [r \in Reqs |-> "response"]
    /\ cur = [r \in Reqs |-> "none"]
    /\ iter = [r \in Reqs |-> 0]
    /\ calls = [r \in Reqs |-> <<>>]
    /\ startActive = [r \in Reqs |-> "none"]
    /\ alone = [r \in Reqs |-> TRUE]
    /\ prev = [r \in Reqs |-> "none"]
    /\ result = [r \in Reqs |-> NoResult]
    /\ lastFailover = "none"
    /\ started = 0
    /\ agg = AggIdle
    /\ tm = TmNew
    /\ cost = NoCost
    /\ trade = TradeIdle
    /\ ld = LdNew
    /\ cb = CbNew
    /\ apm = ApmNew

SpecLife == InitLife /\ [][LifeNext]_vars

\* a new loader in any environment, with the brokerage in any state
InitLoader ==
    /\ AIQuiet
    /\ agg = AggIdle
    /\ tm = TmNew
    /\ cost = NoCost
    /\ trade = TradeIdle
    /\ MgrAtRest
    /\ \E env \in Environments : \E api \in ApiStates : ld = LdWith(env, api)
    /\ cb = CbNew
    /\ apm = ApmNew

SpecLoader == InitLoader /\ [][LoaderNext]_vars

InitApm ==
    /\ AIQuiet
    /\ agg = AggIdle
    /\ tm = TmNew
    /\ cost = NoCost
    /\ trade = TradeIdle
    /\ MgrAtRest
    /\ ld = LdNew
    /\ cb = CbNew
    /\ apm = ApmNew

SpecApm == InitApm /\ [][ApmNext]_vars

InitConfirm ==
    /\ AIQuiet
    /\ agg = AggIdle
    /\ tm = TmNew
    /\ cost = NoCost
    /\ trade = TradeIdle
    /\ MgrAtRest
    /\ ld = LdNew
    /\ cb = CbNew
    /\ apm = ApmNew

SpecConfirm == InitConfirm /\ [][ConfirmNext]_vars

SpecRace == InitConfirm /\ [][RaceNext]_vars

(***************************************************************************)
(* Properties of the AI provider router                                    *)
(***************************************************************************)
Named(cs) == SelectSeq(cs, LAMBDA c : c.p # "fallback")

CalledNames(cs) == {cs[i].p : i \in 1..Len(cs)}

\* Responses the router has to treat as errors: no string, empty, or an error
\* indicator in any letter case; the last one is the providers' timeout answer
ErrorShaped ==
    { NoneValue,
      Str(<<>>),
      Str(<<"S", "e", "r", "v", "e", "r", " ", "E", "R", "R", "O", "R">>),
      Str(<<"T", "i", "m", "e", "O", "u", "t">>),
      Str(TimeoutText) }

\* The order in which one request has to try the named providers
ExpectedOrder(a) ==
    (IF \E i \in 1..Len(providers) : providers[i] = a THEN <<a>> ELSE <<>>)
        \o SelectSeq(providers, LAMBDA n : n # a)

IsPrefix(a, b) == Len(a) <= Len(b) /\ \A i \in 1..Len(a) : a[i] = b[i]

\* C1: sticky failover. Once a request that ran alone has failed over from the
\* failing active provider A to B, active_provider is B as long as no request is
\* running; the next request, run alone, calls B first and, when B answers with a
\* non-error, calls no other provider (A is not invoked at all).
C1_StickyFailover ==
    /\ (lastFailover # "none" /\ \A q \in Reqs : ~Running(q)) => active = lastFailover
    /\ \A r \in Reqs :
         (pc[r] # "idle" /\ alone[r] /\ prev[r] # "none") =>
            /\ startActive[r] = prev[r]
            /\ calls[r] # <<>>
            /\ calls[r][1].p = prev[r]
            /\ (calls[r][1].st = "ok" => Len(calls[r]) = 1)

C1_Witness ==
    \E r \in Reqs :
        /\ pc[r] = "done" /\ kind[r] = "response" /\ alone[r]
        /\ prev[r] = "deepseek" /\ providers = ProviderOrder
        /\ Len(calls[r]) = 1 /\ calls[r][1].p = "deepseek" /\ calls[r][1].st = "ok"

\* C2: the router is total. No exception leaves generate_response; it returns a
\* string; the fallback is called at most once, as the last call and only after
\* every call before it has failed; when every named provider called has failed,
\* the returned string is the fallback's answer, and a request that ran alone has
\* then called every registered provider.
C2_RouterTotal ==
    \A r \in Reqs :
        LET cs == calls[r]
            fb == {i \in 1..Len(cs) : cs[i].p = "fallback"}
        IN /\ pc[r] # "raised"
           /\ Cardinality(fb) <= 1
           /\ \A i \in fb : i = Len(cs) /\ pc[r] = "done"
                            /\ \A j \in 1..(i - 1) : cs[j].st = "failed"
           /\ (pc[r] = "done" /\ kind[r] = "response") =>
                /\ result[r].value.str
                /\ (\A i \in 1..Len(cs) : cs[i].p # "fallback" => cs[i].st = "failed")
                      => (result[r] = FallbackResult("response") /\ Cardinality(fb) = 1)
                /\ (fb # {} /\ alone[r]) => Registered \subseteq CalledNames(cs)

C2_Witness ==
    \E r \in Reqs :
        /\ pc[r] = "done" /\ kind[r] = "response"
        /\ Len(calls[r]) = 3
        /\ calls[r][1].out.exc
        /\ ~calls[r][2].out.exc
        /\ result[r] = FallbackResult("response")

\* An error-shaped answer or an exception of a named provider marks the call as
\* failed, is followed by a further call (the next provider or the fallback) and
\* is not what the request returns
ErrorAnswersFailOver ==
    \A r \in Reqs :
        kind[r] = "response" =>
            /\ \A i \in 1..Len(calls[r]) :
                   LET c == calls[r][i] IN
                   (c.p # "fallback" /\ c.st # "inflight"
                        /\ (c.out.exc \/ c.out.value \in ErrorShaped)) =>
                       /\ c.st = "failed"
                       /\ i < Len(calls[r])
            /\ (pc[r] = "done" /\ result[r].from # "fallback") =>
                   result[r].value \notin ErrorShaped

\* active_provider changes only to a provider whose answer, just received, was no
\* exception and is not error-shaped
ErrorNeverActivates ==
    [][active' # active =>
        \E r \in Reqs :
            /\ Running(r) /\ pc'[r] = "done" /\ cur[r] = active'
            /\ LET c == calls'[r][Len(calls'[r])] IN
                   /\ c.p = active' /\ c.st = "ok"
                   /\ ~c.out.exc
                   /\ (kind[r] = "response" => c.out.value \notin ErrorShaped)]_vars

\* C3: an error-shaped answer of a named provider (no string, empty, or an error
\* indicator in any letter case; the providers' timeout answer is one) is never
\* returned by generate_response and never makes its provider the active one; the
\* request goes on to the next provider or to the fallback, as after an exception.
C3_ErrorResponsesFailOver == []ErrorAnswersFailOver /\ ErrorNeverActivates

C3_Witness ==
    \E r \in Reqs :
        /\ kind[r] = "response" /\ pc[r] = "done"
        /\ Len(calls[r]) = 2
        /\ calls[r][1].out = [exc |-> FALSE, value |-> Str(TimeoutText)]
        /\ calls[r][2].st = "ok"
        /\ active = calls[r][2].p

\* C4: within one request that runs alone, failover is strictly sequential: the
\* calls follow the order "active provider, then the others in registration
\* order", the fallback comes only after all of them, no named provider is called
\* twice, every call before the last has failed (so none follows a success), and
\* at most one call is in flight.
C4_SequentialFailover ==
    \A r \in Reqs :
        LET cs == calls[r]
            named == Named(cs)
            order == ExpectedOrder(startActive[r])
        IN /\ \A i \in 1..(Len(cs) - 1) : cs[i].st = "failed"
           /\ Cardinality({i \in 1..Len(cs) : cs[i].st = "inflight"}) <= 1
           /\ Running(r) <=> (cs # <<>> /\ cs[Len(cs)].st = "inflight")
           /\ (pc[r] # "idle" /\ alone[r]) =>
                /\ IsPrefix([i \in 1..Len(named) |-> named[i].p], order)
                /\ \A i, j \in 1..Len(named) : i # j => named[i].p # named[j].p
                /\ (pc[r] = "done" /\ result[r].from = "fallback") => Len(named) = Len(order)

C4_Witness ==
    \E r \in Reqs :
        /\ kind[r] = "strategy" /\ alone[r] /\ pc[r] = "await_other"
        /\ startActive[r] = "deepseek"
        /\ Len(calls[r]) = 2
        /\ calls[r][1].p = "deepseek" /\ calls[r][1].st = "failed"
        /\ calls[r][2].p = "openrouter"

\* C5: (as claimed) also when two generate_response calls interleave, each call
\* invokes every named provider at most once and tries every named provider before
\* it resorts to the fallback.
C5_ConcurrentRequestsKeepContract ==
    \A r \in Reqs :
        kind[r] = "response" =>
            LET named == Named(calls[r]) IN
            /\ \A i, j \in 1..Len(named) : i # j => named[i].p # named[j].p
            /\ (pc[r] = "done" /\ result[r].from = "fallback") =>
                   Registered \subseteq CalledNames(calls[r])

\* C6: active_provider is changed only by a successful failover: the step that
\* changes it is the return of a non-active registered provider called in the loop
\* over the other providers; a request that ends with the active provider's answer
\* or with the fallback's answer leaves it as it is; providers never changes.
C6_ActiveOnlyByFailover ==
    [][/\ providers' = providers
       /\ active' # active =>
            /\ active' \in Registered
            /\ \E r \in Reqs :
                 /\ pc[r] = "await_other" /\ cur[r] = active'
                 /\ pc'[r] = "done" /\ result'[r].from = active'
       /\ \A r \in Reqs :
            (Running(r) /\ pc'[r] = "done"
                /\ (pc[r] = "await_active" \/ result'[r].from = "fallback"))
              => active' = active]_vars

C6_Witness ==
    \E r \in Reqs :
        /\ pc[r] = "done" /\ result[r].from = "fallback"
        /\ Len(calls[r]) >= 2
        /\ active = "deepseek" /\ providers = ProviderOrder

\* the tokens of a provider's answer
TokensOf(value) == {value.text[i] : i \in 1..Len(value.text)}

\* the target_return written in a provider's answer, in tenths of a percent
WrittenTargets(value) ==
    {MemberTarget(t) :
        t \in {x \in TokensOf(value) \cap MemberTokens : MemberField(x) = "target_return"}}

AISourced(r) ==
    pc[r] = "done" /\ kind[r] = "strategy" /\ result[r].from # "fallback"

\* C16: a strategy parsed from an AI answer is returned as AI-sourced only if it
\* has strategy_name, target_return, risk_level and actions, actions is a list
\* and target_return lies in [5, 50]; an answer whose target_return lies outside
\* [5, 50] is never the accepted one, and the target_return of a returned
\* AI-sourced strategy is the one the provider wrote, not a clamped one.
C16_TargetReturnInRangeOrRejected ==
    \A r \in Reqs :
        /\ AISourced(r) =>
              LET st == result[r].strategy
                  last == calls[r][Len(calls[r])]
              IN /\ st.ok
                 /\ {"strategy_name", "target_return", "risk_level", "actions"}
                        \subseteq st.fields
                 /\ st.actions_list
                 /\ st.target_return >= 50 /\ st.target_return <= 500
                 /\ ~st.fallback_strategy
                 /\ last.st = "ok" /\ last.p = result[r].from
                 /\ WrittenTargets(last.out.value) = {st.target_return}
        /\ kind[r] = "strategy" =>
              \A i \in 1..Len(calls[r]) :
                  LET c == calls[r][i] IN
                  (/\ c.st # "inflight"
                   /\ c.out.value.str
                   /\ \E t \in WrittenTargets(c.out.value) : t < 50 \/ t > 500)
                      => c.st = "failed"

\* the first provider wrote 51 %, the second 5 %: the second one's strategy is
\* returned with its 5 %
C16_Witness ==
    \E r \in Reqs :
        /\ AISourced(r)
        /\ Len(calls[r]) = 2
        /\ calls[r][1].st = "failed"
        /\ WrittenTargets(calls[r][1].out.value) = {510}
        /\ result[r].from = calls[r][2].p
        /\ result[r].strategy.target_return = 50

(***************************************************************************)
(* Properties of the portfolio aggregators                                 *)
(***************************************************************************)
Returned == agg.phase = "done" /\ agg.status = "ok"

\* Market and invested value of a raw account, from its raw positions
RawMarketValue(raw) ==
    SumOf([i \in 1..Len(raw.positions) |->
             [v |-> raw.positions[i].quantity * raw.positions[i].current_price.units]], "v")

RawInvested(raw) ==
    SumOf([i \in 1..Len(raw.positions) |->
             [v |-> raw.positions[i].quantity * raw.positions[i].average_position_price.units]],
          "v")

RawRubCash(raw) ==
    SumOf([i \in 1..Len(raw.money) |->
             [v |-> IF raw.money[i].currency = "rub" THEN raw.money[i].units ELSE 0]], "v")

\* C7: sum invariant. At every point of an aggregation, and in what it returns,
\* the consolidated value, invested amount and cash are exactly the sums of the
\* values of the accounts listed.
C7_SumInvariant ==
    /\ agg.total_portfolio_value = SumOf(agg.accounts, "total_value")
    /\ agg.total_invested = SumOf(agg.accounts, "total_invested")
    /\ agg.total_cash = SumOf(agg.accounts, "available_cash")

C7_Witness ==
    /\ Returned /\ agg.impl = "bot"
    /\ Len(agg.accounts) = 2
    /\ agg.accounts[1].total_value = 30000 /\ agg.accounts[1].available_cash = 10000
    /\ agg.accounts[2].total_value = 0 /\ agg.accounts[2].available_cash = 5000
    /\ agg.total_portfolio_value = 30000 /\ agg.total_cash = 15000

\* C8: (as claimed) every listed account's total_value is its rouble cash plus the
\* sum of quantity x current price over its positions, and the bot's
\* total_invested is the sum of quantity x average price.
C8_AccountValueIncludesCash ==
    Returned =>
        \A k \in 1..Len(agg.accounts) :
            LET raw == agg.raws[agg.ids[k]]
                d == agg.accounts[k]
            IN /\ d.total_value = RawRubCash(raw) + RawMarketValue(raw)
               /\ agg.impl = "bot" => d.total_invested = RawInvested(raw)

\* C9: (as claimed) an aggregation that returns a consolidated portfolio has had no
\* account whose portfolio or positions fetch failed.
C9_FetchFailurePropagates ==
    Returned => agg.failed = {}

\* C10: (as claimed) no listed position has a quantity of 0 or less, and
\* positions_count counts the raw positions of positive quantity.
C10_ZeroQuantityExcluded ==
    \A k \in 1..Len(agg.accounts) :
        LET raw == agg.raws[agg.ids[k]]
            d == agg.accounts[k]
        IN /\ \A i \in 1..Len(d.positions) : d.positions[i].quantity > 0
           /\ d.positions_count =
                 Cardinality({i \in 1..Len(raw.positions) : raw.positions[i].quantity > 0})

(***************************************************************************)
(* Properties of the trade costing and of the tariff manager               *)
(***************************************************************************)
CostedAsBuy == Upper(cost.action) = <<"B", "U", "Y">>

\* the rate the reference applies: the buy rate of the tariff for BUY, its sell
\* rate for SELL
ReferenceRate ==
    IF CostedAsBuy THEN cost.rate_tariff.commission_rates.buy
    ELSE cost.rate_tariff.commission_rates.sell

C12_NonPositiveQuantityRejected ==
    (cost.status # "none" /\ cost.quantity <= 0) =>
        (cost.status = "invalid_action" /\ ~cost.breakdown.made)

\* the standard-tier default of the specification
StandardDefault ==
    [set |-> TRUE, name |-> "Standartnyj", type |-> "standard",
     commission_rates |-> [buy |-> 50, sell |-> 50, min_commission |-> 1],
     monthly_fee |-> 0]

\* C13: tariff resolution is total: no call of get_tariff_info,
\* get_commission_rate or get_min_commission raises; a call during which a
\* brokerage call threw works with the standard-tier default (buy 0.05 %, sell
\* 0.05 %, minimum commission 1.0, monthly fee 0); get_commission_rate and
\* get_min_commission always return a value of the rate table.
C13_TariffResolutionTotal ==
    tm.op # "none" =>
        /\ ~tm.raised
        /\ tm.ret.set
        /\ tm.threw => tm.ret = StandardDefault
        /\ tm.op = "get_commission_rate" => tm.value \in {25, 40, 50, 300}
        /\ tm.op = "get_min_commission" => tm.value \in {0, 1}
        /\ (tm.threw /\ tm.op = "get_commission_rate") => tm.value = 50
        /\ (tm.threw /\ tm.op = "get_min_commission") => tm.value = 1

\* get_accounts throws during get_commission_rate: 0.05 % is returned
C13_Witness ==
    /\ tm.op = "get_commission_rate"
    /\ tm.threw /\ tm.ev.fail = "get_accounts" /\ tm.api_calls = 2
    /\ ~tm.raised
    /\ tm.value = 50

\* C14: the tariff is resolved once per session: every call made after the first
\* one has returned works with the tariff the first one returned and makes no
\* call to the brokerage.
C14_ResolvedOncePerSession ==
    tm.later => (tm.ret = tm.first /\ tm.api_calls = 0)

\* an account counts as an individual investment account when its lower-cased
\* type text contains the marker "iiis", as a brokerage account when it contains
\* "brokerage"
IsIIA(acc) == acc.has_type /\ Contains(<<"i", "i", "i", "s">>, Lower(acc.type))

IsBrokerageAccount(acc) ==
    acc.has_type
        /\ Contains(<<"b", "r", "o", "k", "e", "r", "a", "g", "e">>, Lower(acc.type))

\* the tier the fixed priority gives for the metadata that the brokerage returned
TierByPriority(u, a) ==
    IF u.present /\ u.premium_status = "true" THEN "premium"
    ELSE IF u.present /\ u.tariff.has
    THEN IF u.tariff.attrs THEN u.tariff.type ELSE "standard"
    ELSE IF /\ a.present
            /\ \E i \in 1..Len(a.accounts) : IsIIA(a.accounts[i])
            /\ \E i \in 1..Len(a.accounts) : IsBrokerageAccount(a.accounts[i])
    THEN "investor"
    ELSE IF a.present /\ Len(a.accounts) > 2 THEN "trader"
    ELSE "standard"

\* the fixed entry of a tier: rates in thousandths of a percent, roubles
TierEntry(tier) ==
    CASE tier = "investor" -> [buy |-> 300, sell |-> 300, min |-> 0, fee |-> 0]
      [] tier = "trader" -> [buy |-> 40, sell |-> 40, min |-> 0, fee |-> 390]
      [] tier = "premium" -> [buy |-> 25, sell |-> 25, min |-> 0, fee |-> 0]
      [] OTHER -> [buy |-> 50, sell |-> 50, min |-> 1, fee |-> 0]

\* a get_tariff_info call that ran the detection to its end
Detected == tm.op = "get_tariff_info" /\ tm.ev.fail = "none"

\* C20: tariff detection is a function of the account metadata with a fixed
\* priority: a set premium flag gives the premium tier; otherwise an explicit
\* tariff field gives that field's tier; otherwise an individual investment
\* account together with a brokerage account gives the investor tier, otherwise
\* more than 2 accounts give the trader tier, otherwise the standard tier; every
\* tier, an unknown one included, carries one fixed entry of buy rate, sell rate,
\* minimum commission and monthly fee, unknown tiers getting the standard rates.
C20_DetectionByFixedPriority ==
    Detected =>
        LET tier == TierByPriority(tm.ev.user_info, tm.ev.accounts_response)
            e == TierEntry(tier)
        IN /\ tm.ret.set
           /\ tm.ret.type = tier
           /\ tm.ret.commission_rates.buy = e.buy
           /\ tm.ret.commission_rates.sell = e.sell
           /\ tm.ret.commission_rates.min_commission = e.min
           /\ tm.ret.monthly_fee = e.fee
           /\ tm.tariff_info = tm.ret

\* three accounts, an individual investment account and a brokerage account among
\* them, no premium flag and no tariff field: investor, not trader
C20_Witness ==
    /\ Detected
    /\ ~tm.ev.user_info.tariff.has
    /\ tm.ev.user_info.premium_status # "true"
    /\ Len(tm.ev.accounts_response.accounts) = 3
    /\ \E i \in 1..3 : IsIIA(tm.ev.accounts_response.accounts[i])
    /\ \E i \in 1..3 : IsBrokerageAccount(tm.ev.accounts_response.accounts[i])
    /\ tm.ret.type = "investor"
    /\ tm.ret.commission_rates.buy = 300

(***************************************************************************)
(* Properties of the strategy synthesis                                    *)
(***************************************************************************)
\* generate_portfolio_strategy has returned to the command
StrategyReturned == trade.stage \in {"returned", "shown", "finished", "pending", "executed"}

\* C15: strategy synthesis always ends with a strategy: whatever the providers
\* did, generate_portfolio_strategy returns a strategy; when no provider's
\* strategy was accepted it is the algorithmic fallback, marked as
\* fallback-sourced, with at most 5 actions, and the same for the same portfolio
\* as the fallback strategy returned before.
C15_SynthesisAlwaysYieldsStrategy ==
    StrategyReturned =>
        /\ trade.strategy.set
        /\ trade.strategy.source = "fallback" =>
              /\ trade.strategy.fallback_strategy
              /\ Len(trade.strategy.actions) <= 5
              /\ trade.prior.set => trade.strategy = trade.prior

\* C17: every action of the strategy that synthesis returns carries a cost
\* breakdown from the moment the strategy is returned, so no strategy reaches
\* display or execution with an uncosted action.
C17_ReturnedActionsAreCosted ==
    StrategyReturned =>
        \A i \in 1..Len(trade.strategy.actions) :
            trade.strategy.actions[i].cost_calculation.made

(***************************************************************************)
(* Properties of the providers' registration and teardown                  *)
(***************************************************************************)
\* the text begins with the given characters
Begins(text, chars) ==
    \A i \in 1..Len(chars) : i <= Len(text) /\ text[i] = chars[i]

OpenRouterShaped == Begins(mgr.keys["openrouter"], <<"s", "k", "-", "o", "r", "-">>)

DeepSeekShaped == Begins(mgr.keys["deepseek"], <<"s", "k", "-">>)

ExpectedProviders ==
    (IF OpenRouterShaped THEN <<"openrouter">> ELSE <<>>)
        \o (IF DeepSeekShaped THEN <<"deepseek">> ELSE <<>>)

\* C18: after initialization the providers map holds exactly the backends whose
\* key has the expected shape (openrouter 'sk-or-', deepseek 'sk-'), openrouter
\* before deepseek; active_provider is the first of them, 'fallback' exactly when
\* there is none; get_provider_info reports these names and their number.
C18_RegisteredProvidersMatchCredentials ==
    /\ providers = ExpectedProviders
    /\ active = (IF ExpectedProviders = <<>> THEN "fallback" ELSE ExpectedProviders[1])
    /\ (active = "fallback") <=> (providers = <<>>)
    /\ mgr.info.set =>
          /\ mgr.info.available_providers = ExpectedProviders
          /\ mgr.info.providers_count = Len(ExpectedProviders)
          /\ mgr.info.active_provider = active

\* an openrouter key of the wrong shape with a good deepseek key: deepseek alone is
\* reported, and is active
C18_Witness ==
    /\ mgr.keys["openrouter"] = <<"s", "k", "-", "o", "r">>
    /\ mgr.keys["deepseek"] = <<"s", "k", "-", "1">>
    /\ mgr.info.set
    /\ mgr.info.available_providers = <<"deepseek">>
    /\ mgr.info.active_provider = "deepseek"

\* C19: when AIManager.close has returned, every registered provider that held an
\* open session when close was called had it closed exactly once, a failing close
\* of one provider stopped neither close nor the closing of the others, and no
\* registered provider holds an open session.
C19_CloseLeavesNoOpenSession ==
    mgr.pc = "closed" =>
        \A name \in Registered :
            /\ name \in mgr.held => mgr.closed[name] = 1
            /\ mgr.session[name] # "open"

(***************************************************************************)
(* Properties of the dependency loader and the brokerage client            *)
(***************************************************************************)
Initialized == ld.op \in {"initialize", "initialize_app"}

\* every endpoint answers and there is an account
ApiWorks ==
    ld.api = [client |-> "ok", open |-> "ok", accounts |-> "some", other |-> "ok"]

\* C21: while creating the API client raises a connection error, initialize and
\* initialize_app return False and leave is_initialized False; an initialize call
\* made while the API works returns True and leaves is_initialized True.
C21_InitializeFailsWithoutBrokerage ==
    Initialized =>
        /\ ld.api.client = "ConnectionError" => (~ld.ret /\ ~ld.is_initialized)
        /\ ApiWorks => (ld.ret /\ ld.is_initialized)

\* C22: a new loader is not initialized; is_initialized holds only with a
\* registered tinkoff_client; get_tinkoff_client returns the registered client
\* when is_initialized holds and raises RuntimeError when it does not; cleanup
\* leaves is_initialized False and no tinkoff_client; an initialize that returns
\* True, also after a cleanup, leaves the loader initialized.
C22_LoaderLifecycle ==
    /\ ld.op = "none" => ~ld.is_initialized
    /\ ld.is_initialized => ld.client.kind # "none"
    /\ ld.op = "get_tinkoff_client" =>
          IF ld.is_initialized
          THEN ld.raised = "none" /\ ld.got = ld.client /\ ld.got.kind # "none"
          ELSE ld.raised = "RuntimeError"
    /\ ld.op = "cleanup" => (~ld.is_initialized /\ ld.client.kind = "none")
    /\ (Initialized /\ ld.ret) => ld.is_initialized

\* initialize has succeeded with the real client on a loader that was cleaned up
C22_Witness ==
    /\ ld.cleaned
    /\ ld.op = "initialize"
    /\ ld.ret
    /\ ld.is_initialized
    /\ ld.client.kind = "real"

SandboxEndpoints ==
    {"sandbox.get_sandbox_accounts", "sandbox.get_sandbox_portfolio",
     "sandbox.get_sandbox_positions", "sandbox.open_sandbox_account"}

ProductionEndpoints ==
    {"users.get_accounts", "operations.get_portfolio", "operations.get_positions"}

CalledEndpoints == {ld.endpoints[i] : i \in 1..Len(ld.endpoints)}

\* what the API answers to a method of the client
AnswerFor(method) ==
    IF method = "get_accounts" THEN ld.api.accounts
    ELSE IF method = "create_sandbox_account" THEN ld.api.open
    ELSE ld.api.other

\* C23: a sandbox client serves get_accounts, get_portfolio and get_positions
\* through sandbox endpoints only; a production client calls production endpoints
\* only, and its create_sandbox_account raises RuntimeError without contacting
\* the API; an error raised by an endpoint reaches the caller unchanged.
C23_SandboxIsolation ==
    ld.op = "client" =>
        /\ ld.call.use_sandbox =>
              /\ CalledEndpoints \subseteq SandboxEndpoints
              /\ (ld.api.client = "ok" /\ ld.call.method # "create_sandbox_account")
                    => Len(ld.endpoints) = 1
        /\ ~ld.call.use_sandbox =>
              /\ CalledEndpoints \subseteq ProductionEndpoints
              /\ (ld.api.client = "ok" /\ ld.call.method # "create_sandbox_account")
                    => Len(ld.endpoints) = 1
              /\ ld.call.method = "create_sandbox_account" =>
                    /\ ld.raised = "RuntimeError"
                    /\ ~ld.call.contacted
                    /\ ld.endpoints = <<>>
        /\ (ld.endpoints # <<>> /\ AnswerFor(ld.call.method) \in ApiErrors)
              => ld.raised = AnswerFor(ld.call.method)

\* a sandbox client has read the positions from the sandbox endpoint
C23_Witness ==
    /\ ld.op = "client"
    /\ ld.call.use_sandbox
    /\ ld.call.method = "get_positions"
    /\ ld.endpoints = <<"sandbox.get_sandbox_positions">>
    /\ ld.raised = "none"

(***************************************************************************)
(* Properties of the commission schedule in the /auto_trade command        *)
(***************************************************************************)
\* the rate and the minimum of every costing in the list come from one tariff
OneTariff(calcs) ==
    \A i \in 1..Len(calcs) : \A j \in 1..Len(calcs) :
        calcs[i].rate_tariff = calcs[j].min_tariff

PendingCalcs == [i \in 1..Len(trade.pending) |-> trade.pending[i].cost_calculation]

\* C24: the commission schedule is applied consistently: in every costing the
\* rate and the minimum commission come from the same tariff, and all the actions
\* costed for the display of one strategy, and all those costed for its
\* confirmation request, are costed with one tariff, also when tariff detection
\* fails on some look-ups and succeeds on others.
C24_OneTariffPerStrategy ==
    /\ OneTariff(trade.shown)
    /\ OneTariff(PendingCalcs)

(***************************************************************************)
(* Properties of the AutoPortfolioManager                                  *)
(***************************************************************************)
\* the words of the line, in capitals
Capitals(words) == {Upper(words[i]) : i \in 1..Len(words)}

ActionWord(word) ==
    \/ Contains(<<"B", "U", "Y">>, Upper(word))
    \/ Contains(<<"S", "E", "L", "L">>, Upper(word))

\* C25: a line yields a decision only if its first word contains BUY or SELL and
\* a known ticker is found; the ticker of every decision of
\* _parse_trading_decisions is a known instrument; a line naming no known
\* instrument yields no decision.
C25_ParsedTickersAreKnown ==
    /\ apm.op = "_parse_decision_line" =>
          /\ apm.decision.made =>
                /\ ActionWord(apm.line[1])
                /\ apm.decision.ticker \in KnownTickers
          /\ Capitals(apm.line) \cap KnownTickers = {} => ~apm.decision.made
    /\ apm.op = "_parse_trading_decisions" =>
          \A i \in 1..Len(apm.parsed) : apm.parsed[i].ticker \in KnownTickers

AmountSum ==
    LET sum[i \in 0..Len(apm.decisions)] ==
            IF i = 0 THEN 0 ELSE sum[i - 1] + apm.decisions[i].amount
    IN sum[Len(apm.decisions)]

\* C30: for non-negative available cash the algorithmic fallback returns at most
\* 4 decisions, all BUY, each of at most 30 % of the available cash, their sum not
\* above the available cash, and none when the cash is 5000 or less (amounts in
\* hundredths of a rouble).
C30_FallbackSpendsWithinCash ==
    (apm.op = "_generate_algorithmic_decisions" /\ apm.available_cash >= 0) =>
        /\ Len(apm.decisions) <= 4
        /\ \A i \in 1..Len(apm.decisions) :
              /\ apm.decisions[i].action = <<"B", "U", "Y">>
              /\ apm.decisions[i].amount <= apm.available_cash * 30
        /\ AmountSum <= apm.available_cash * 100
        /\ apm.available_cash <= 5000 => apm.decisions = <<>>

\* four decisions for 10001 roubles: 3000.30 + 2000.20 + 1500.15 + 1500.15
C30_Witness ==
    /\ apm.op = "_generate_algorithmic_decisions"
    /\ apm.available_cash = 10001
    /\ Len(apm.decisions) = 4
    /\ AmountSum = 800080

(***************************************************************************)
(* Properties of the confirmation of trading actions                       *)
(***************************************************************************)
ConfirmKinds == {"confirm_all", "confirm"}

\* the action is in the user's pending list
Listed(user, req, idx) ==
    \E k \in 1..Len(cb.pending[user]) :
        cb.pending[user][k].req = req /\ cb.pending[user][k].idx = idx

C28_PressedButtonIsExecuted ==
    \A o \in cb.orders :
        o.data.kind = "confirm" => (o.req = o.msg /\ o.idx = o.data.index + 1)

\* ---------------------------------------------------------------------------
\* Properties of the automatic execution of a strategy
\* ---------------------------------------------------------------------------

\* how many elements of seq are the action a
HowMany(seq, a) == Cardinality({i \in DOMAIN seq : seq[i] = a})

AutomaticReport == trade.stage = "executed" /\ trade.auto

\* C29: in automatic mode only the actions of urgency 'high' are sent for
\* execution: no action of another urgency is in the executed or in the failed
\* list, and every action of urgency 'high' is counted exactly once, as executed
\* or as failed, whatever happened to the actions before it.
C29_AutomaticModeSendsHighUrgencyOnly ==
    AutomaticReport =>
        LET acts == trade.strategy.actions
            counted == trade.executed \o trade.failed
        IN /\ \A i \in DOMAIN counted : counted[i].urgency = "high"
           /\ \A i \in DOMAIN acts :
                 HowMany(counted, acts[i]) =
                     IF acts[i].urgency = "high" THEN HowMany(acts, acts[i]) ELSE 0
           /\ \A i \in DOMAIN counted : \E j \in DOMAIN acts : acts[j] = counted[i]

\* a report where an action failed, a later one was executed all the same, and
\* an action of another urgency was left alone
C29_Witness ==
    /\ AutomaticReport
    /\ \E i, j \in DOMAIN trade.strategy.actions :
          /\ i < j
          /\ HowMany(trade.failed, trade.strategy.actions[i]) = 1
          /\ HowMany(trade.executed, trade.strategy.actions[j]) = 1
    /\ \E i \in DOMAIN trade.strategy.actions :
          trade.strategy.actions[i].urgency # "high"
====
